---- MODULE Spec2Model ----
(***************************************************************************)
(* A model of three components of the storage engine:                      *)
(*   - the B+Tree index (b_plus_tree.cpp, src/unnamed/part_000),           *)
(*   - the LRU-K replacer (lru_k_replacer.cpp, src/unnamed/part_001),      *)
(*   - the extendible hash table                                           *)
(*     (src/src/container/hash/extendible_hash_table.cpp).                 *)
(* The page classes (leaf / internal page methods), the buffer pool, the   *)
(* header page, the list helpers of the replacer and the methods of the    *)
(* hash table that live in its header are not part of the modelled         *)
(* sources; they are modelled from their documented contracts.             *)
(***************************************************************************)
EXTENDS Integers, Sequences, FiniteSets, TLC

(***************************************************************************)
(* Bounds of the model.                                                    *)
(***************************************************************************)
MaxKey == 7
MaxVal == 1
MaxPageId == 6

Keys == 1..MaxKey
\* The values a caller stores under key k (the tests store RID(key)).
ValuesOf(k) == {10 * k + j : j \in 1..MaxVal}
PageIds == 1..MaxPageId

\* Leaf and internal fanouts the tree is constructed with.
LeafSizes == {2, 4}
InternalSizes == {3}

(***************************************************************************)
(* Program constants.                                                      *)
(***************************************************************************)
INVALID_PAGE_ID == -1
HEADER_PAGE_ID == 0
\* The nullptr entry of the page set stands for root_page_latch_.
NullPage == INVALID_PAGE_ID - 1
\* The header page holds no record for this index.
NoRecord == INVALID_PAGE_ID - 2
\* ValueIndex: the page id is not a child of the page.
NotFound == INVALID_PAGE_ID - 3

(***************************************************************************)
(* Sequences.                                                              *)
(***************************************************************************)
InsertAt(seq, i, x) == SubSeq(seq, 1, i - 1) \o <<x>> \o SubSeq(seq, i, Len(seq))
RemoveAt(seq, i) == SubSeq(seq, 1, i - 1) \o SubSeq(seq, i + 1, Len(seq))

(***************************************************************************)
(* Pages.  A page is a record; keys and vals are the page's array, C index *)
(* i is TLA+ index i + 1.  For an internal page vals are child page ids    *)
(* and keys[1] is the unused key of slot 0.                                *)
(***************************************************************************)
FreePage ==
  [type |-> "FREE", parent |-> INVALID_PAGE_ID, next |-> INVALID_PAGE_ID,
   max |-> 0, keys |-> <<>>, vals |-> <<>>]

LeafInit(parent_id, max_size) ==
  [type |-> "LEAF", parent |-> parent_id, next |-> INVALID_PAGE_ID,
   max |-> max_size, keys |-> <<>>, vals |-> <<>>]

InternalInit(parent_id, max_size) ==
  [type |-> "INTERNAL", parent |-> parent_id, next |-> INVALID_PAGE_ID,
   max |-> max_size, keys |-> <<>>, vals |-> <<>>]

IsLeafPage(pg) == pg.type = "LEAF"
IsRootPage(pg) == pg.parent = INVALID_PAGE_ID
GetSize(pg) == Len(pg.vals)
GetMaxSize(pg) == pg.max
GetMinSize(pg) == (pg.max + 1) \div 2
KeyAt(pg, i) == pg.keys[i + 1]
ValueAt(pg, i) == pg.vals[i + 1]
SetKeyAt(pg, i, k) == [pg EXCEPT !.keys[i + 1] = k]

\* Leaf page: index of the first key >= k.
KeyIndex(pg, k) == Cardinality({i \in 1..Len(pg.keys) : pg.keys[i] < k})

HasKey(pg, k) == \E i \in 1..Len(pg.keys) : pg.keys[i] = k

\* Leaf page Lookup(key, &value).
LeafLookup(pg, k) ==
  IF HasKey(pg, k)
  THEN [found |-> TRUE, value |-> pg.vals[CHOOSE i \in 1..Len(pg.keys) : pg.keys[i] = k]]
  ELSE [found |-> FALSE, value |-> 0]

\* Leaf page Insert(key, value): sorted insert, a key already there is kept.
LeafInsert(pg, k, v) ==
  IF HasKey(pg, k) THEN pg
  ELSE LET i == KeyIndex(pg, k) + 1
       IN [pg EXCEPT !.keys = InsertAt(@, i, k), !.vals = InsertAt(@, i, v)]

\* Leaf page RemoveAndDeleteRecord(key).
RemoveAndDeleteRecord(pg, k) ==
  IF ~HasKey(pg, k) THEN pg
  ELSE LET i == CHOOSE j \in 1..Len(pg.keys) : pg.keys[j] = k
       IN [pg EXCEPT !.keys = RemoveAt(@, i), !.vals = RemoveAt(@, i)]

\* Internal page Lookup(key): the child whose key range holds key.
InternalLookup(pg, k) ==
  pg.vals[1 + Cardinality({i \in 2..Len(pg.keys) : pg.keys[i] <= k})]

\* Internal page ValueIndex(value).
ValueIndex(pg, v) ==
  IF \E i \in 1..Len(pg.vals) : pg.vals[i] = v
  THEN (CHOOSE i \in 1..Len(pg.vals) : pg.vals[i] = v) - 1
  ELSE NotFound

\* Internal page InsertNodeAfter(old_value, key, new_value); old_value is a child.
InsertNodeAfter(pg, old_value, k, new_value) ==
  LET idx == ValueIndex(pg, old_value) + 1
  IN [pg EXCEPT !.keys = InsertAt(@, idx + 1, k), !.vals = InsertAt(@, idx + 1, new_value)]

\* Internal page PopulateNewRoot(old_value, key, new_value) on a fresh page.
PopulateNewRoot(pg, old_value, k, new_value) ==
  [pg EXCEPT !.keys = <<0, k>>, !.vals = <<old_value, new_value>>]

\* Internal page Remove(index).
InternalRemove(pg, index) ==
  [pg EXCEPT !.keys = RemoveAt(@, index + 1), !.vals = RemoveAt(@, index + 1)]

(***************************************************************************)
(* The state an operation works on: the pages of the buffer pool, their    *)
(* pin counts and write latches, the tree header, the root-id guard        *)
(* (0 free, -1 write-locked, n > 0 read-locked n times), the transaction's *)
(* page set and deleted page set, the header record, and what the running  *)
(* operation has computed so far (cur, sib, node, flag, ret), and whether   *)
(* it has written the root id or the header record without holding the     *)
(* root-id guard in write mode (unguarded).                                *)
(***************************************************************************)
Fault(s, kind) == IF s.fault = "none" THEN [s EXCEPT !.fault = kind] ELSE s

\* BufferPoolManager::FetchPage: pins the page.
FetchPage(s, p) ==
  IF s.fault # "none" THEN s
  ELSE IF p = HEADER_PAGE_ID THEN [s EXCEPT !.pins[p] = @ + 1]
  ELSE IF p \notin PageIds \/ s.pages[p].type = "FREE" THEN Fault(s, "undefined")
  ELSE [s EXCEPT !.pins[p] = @ + 1]

\* BufferPoolManager::UnpinPage.
UnpinPage(s, p) ==
  IF s.fault # "none" THEN s
  ELSE IF s.pins[p] > 0 THEN [s EXCEPT !.pins[p] = @ - 1] ELSE s

\* BufferPoolManager::NewPage: a fresh page id, pinned once, zeroed.
NewPage(s) ==
  IF s.fault # "none" THEN s
  ELSE IF s.next > MaxPageId THEN [s EXCEPT !.oom = TRUE, !.fault = "bound"]
  ELSE [s EXCEPT !.next = @ + 1, !.pins[s.next] = 1, !.sib = s.next]

\* BufferPoolManager::DeletePage: frees the page unless it is pinned.
DeletePage(s, p) ==
  IF s.fault # "none" THEN s
  ELSE IF p \in PageIds /\ s.pins[p] = 0 THEN [s EXCEPT !.pages[p] = FreePage] ELSE s

\* Page::WLatch; a latch that is held, by this thread or by a reader, is not
\* granted.
WLatch(s, p) ==
  IF s.fault # "none" THEN s
  ELSE IF p \in s.wl \/ (p \in PageIds /\ s.rl[p] > 0) THEN Fault(s, "hang")
  ELSE [s EXCEPT !.wl = @ \cup {p}]

\* Page::WUnlatch.
WUnlatch(s, p) ==
  IF s.fault # "none" THEN s ELSE [s EXCEPT !.wl = @ \ {p}]

\* Transaction::AddIntoPageSet.
AddIntoPageSet(s, p) ==
  IF s.fault # "none" THEN s ELSE [s EXCEPT !.pset = Append(@, p)]

\* Transaction::AddIntoDeletedPageSet.
AddIntoDeletedPageSet(s, p) ==
  IF s.fault # "none" THEN s ELSE [s EXCEPT !.del = @ \cup {p}]

\* BPlusTree::IsEmpty.
IsEmpty(s) == s.root = INVALID_PAGE_ID

\* BPlusTree::BatchReleaseLatch.
RECURSIVE BatchReleaseLatch(_)
BatchReleaseLatch(s) ==
  IF s.fault # "none" \/ s.pset = <<>> THEN s
  ELSE LET page == Head(s.pset)
           s1 == [s EXCEPT !.pset = Tail(@)]
       IN IF page = NullPage
          THEN BatchReleaseLatch([s1 EXCEPT !.guard = 0])
          ELSE BatchReleaseLatch(UnpinPage(WUnlatch(s1, page), page))

\* A write to root_page_id_ or to the header record is about to happen.
NoteRootWrite(s) == [s EXCEPT !.unguarded = @ \/ s.guard >= 0]

\* root_page_id_ = p.
SetRootPageId(s, p) == [NoteRootWrite(s) EXCEPT !.root = p]

\* HeaderPage::InsertRecord (a record that is not there yet) and
\* HeaderPage::UpdateRecord (a record that is there).
WriteHeaderRecord(s, insert_record) ==
  IF s.fault # "none" THEN s
  ELSE IF insert_record # 0
  THEN (IF s.hdr = NoRecord THEN [NoteRootWrite(s) EXCEPT !.hdr = s.root] ELSE s)
  ELSE (IF s.hdr # NoRecord THEN [NoteRootWrite(s) EXCEPT !.hdr = s.root] ELSE s)

\* BPlusTree::UpdateRootPageId.
UpdateRootPageId(s, insert_record) ==
  UnpinPage(WriteHeaderRecord(FetchPage(s, HEADER_PAGE_ID), insert_record), HEADER_PAGE_ID)

SetRet(s, r) == [s EXCEPT !.ret = r]
SetFlag(s, f) == IF s.fault # "none" THEN s ELSE [s EXCEPT !.flag = f]

\* ReaderWriterLatch of the root id: RLock / RUnlock / WLock.
RLockRoot(s) ==
  IF s.fault # "none" THEN s
  ELSE IF s.guard < 0 THEN Fault(s, "hang")
  ELSE [s EXCEPT !.guard = @ + 1]

RUnlockRoot(s) ==
  IF s.fault # "none" THEN s
  ELSE IF s.guard > 0 THEN [s EXCEPT !.guard = @ - 1] ELSE Fault(s, "undefined")

WLockRoot(s) ==
  IF s.fault # "none" THEN s
  ELSE IF s.guard # 0 THEN Fault(s, "hang")
  ELSE [s EXCEPT !.guard = -1]

\* Page::RLatch / RUnlatch.
RLatch(s, p) ==
  IF s.fault # "none" THEN s
  ELSE IF p \in s.wl THEN Fault(s, "hang")
  ELSE [s EXCEPT !.rl[p] = @ + 1]

RUnlatch(s, p) ==
  IF s.fault # "none" THEN s
  ELSE IF s.rl[p] > 0 THEN [s EXCEPT !.rl[p] = @ - 1] ELSE s

\* The early-release test of FindLeaf on a page just latched.
InsertSafe(node) ==
  \/ IsLeafPage(node) /\ GetSize(node) < GetMaxSize(node) - 1
  \/ ~IsLeafPage(node) /\ GetSize(node) < GetMaxSize(node)

DeleteSafeRoot(node) == GetSize(node) > 2

DeleteSafe(node) == GetSize(node) > GetMinSize(node)

\* BPlusTree::FindLeaf, one turn of the loop: the child is fetched, latched,
\* and the pages above it are released if the child is safe.
FindLeafChild(s1, page, child, op) ==
  IF s1.fault # "none" THEN s1
  ELSE IF op = "SEARCH" THEN UnpinPage(RUnlatch(RLatch(s1, child), page), page)
  ELSE IF op = "INSERT" /\ InsertSafe(s1.pages[child])
  THEN BatchReleaseLatch(AddIntoPageSet(WLatch(s1, child), page))
  ELSE IF op = "DELETE" /\ DeleteSafe(s1.pages[child])
  THEN BatchReleaseLatch(AddIntoPageSet(WLatch(s1, child), page))
  ELSE AddIntoPageSet(WLatch(s1, child), page)

\* BPlusTree::FindLeaf, the loop over the internal pages.
RECURSIVE FindLeafLoop(_, _, _, _)
FindLeafLoop(s, page, key, op) ==
  IF s.fault # "none" THEN s
  ELSE IF IsLeafPage(s.pages[page]) THEN [s EXCEPT !.cur = page]
  ELSE IF GetSize(s.pages[page]) = 0 THEN Fault(s, "undefined")
  ELSE LET child == InternalLookup(s.pages[page], key)
       IN IF ~(child > 0) THEN Fault(s, "assert")
          ELSE FindLeafLoop(FindLeafChild(FetchPage(s, child), page, child, op),
                            child, key, op)

\* BPlusTree::FindLeaf, the root page is fetched and latched.
FindLeafRoot(s1, op) ==
  IF s1.fault # "none" THEN s1
  ELSE IF op = "SEARCH" THEN RLatch(RUnlockRoot(s1), s1.root)
  ELSE IF op = "INSERT" /\ InsertSafe(s1.pages[s1.root])
  THEN BatchReleaseLatch(WLatch(s1, s1.root))
  ELSE IF op = "DELETE" /\ DeleteSafeRoot(s1.pages[s1.root])
  THEN BatchReleaseLatch(WLatch(s1, s1.root))
  ELSE WLatch(s1, s1.root)

\* BPlusTree::FindLeaf: on return s.cur is the leaf, pinned and latched.
FindLeaf(s, key, op) ==
  IF s.fault # "none" THEN s
  ELSE IF s.root = INVALID_PAGE_ID THEN Fault(s, "assert")
  ELSE FindLeafLoop(FindLeafRoot(FetchPage(s, s.root), op), s.root, key, op)

\* BPlusTree::GetValue, after FindLeaf.
GetValueFound(s, key) ==
  IF s.fault # "none" THEN s
  ELSE LET r == LeafLookup(s.pages[s.cur], key)
       IN [UnpinPage(RUnlatch(s, s.cur), s.cur)
             EXCEPT !.ret = r.found, !.result = IF r.found THEN <<r.value>> ELSE <<>>]

\* BPlusTree::GetValue: s.ret is the returned flag, s.result the result vector.
GetValue(s0, key) == GetValueFound(FindLeaf(RLockRoot(s0), key, "SEARCH"), key)

\* BPlusTree::StartNewTree, the new page is there.
StartNewTreePage(s1, key, value) ==
  IF s1.fault # "none" THEN s1
  ELSE UnpinPage([SetRootPageId(s1, s1.sib)
                    EXCEPT !.pages[s1.sib] =
                              LeafInsert(LeafInit(INVALID_PAGE_ID, s1.lmax), key, value)],
                 s1.sib)

\* BPlusTree::StartNewTree.
StartNewTree(s, key, value) == StartNewTreePage(NewPage(s), key, value)

\* Leaf page MoveHalfTo: the entries from index GetMinSize() on.
LeafMoveHalfTo(node, recipient) ==
  [old |-> [node EXCEPT !.keys = SubSeq(@, 1, GetMinSize(node)),
                        !.vals = SubSeq(@, 1, GetMinSize(node))],
   new |-> [recipient EXCEPT !.keys = SubSeq(node.keys, GetMinSize(node) + 1, Len(node.keys)),
                             !.vals = SubSeq(node.vals, GetMinSize(node) + 1, Len(node.vals))]]

\* Internal page MoveHalfTo: the same cut.
InternalMoveHalfTo(node, recipient) == LeafMoveHalfTo(node, recipient)

\* One moved child is fetched, reparented and unpinned by the recipient.
AdoptChild(s1, c, parent_id) ==
  IF s1.fault # "none" THEN s1
  ELSE UnpinPage([s1 EXCEPT !.pages[c].parent = parent_id], c)

RECURSIVE AdoptChildren(_, _, _)
AdoptChildren(s, children, parent_id) ==
  IF s.fault # "none" \/ children = <<>> THEN s
  ELSE AdoptChildren(AdoptChild(FetchPage(s, Head(children)), Head(children), parent_id),
                     Tail(children), parent_id)

\* BPlusTree::Split, the new page is there.
SplitPage(s1, node) ==
  IF s1.fault # "none" THEN s1
  ELSE IF IsLeafPage(node)
  THEN [s1 EXCEPT !.pages[s1.sib] = LeafMoveHalfTo(node, LeafInit(node.parent, s1.lmax)).new,
                  !.node = LeafMoveHalfTo(node, LeafInit(node.parent, s1.lmax)).old]
  ELSE AdoptChildren(
         [s1 EXCEPT !.pages[s1.sib] =
                       InternalMoveHalfTo(node, InternalInit(node.parent, s1.imax)).new,
                    !.node = InternalMoveHalfTo(node, InternalInit(node.parent, s1.imax)).old],
         InternalMoveHalfTo(node, InternalInit(node.parent, s1.imax)).new.vals,
         s1.sib)

\* BPlusTree::Split of node (a page image): s.sib is the new page, s.node the
\* image of node after the move.
Split(s, node) == SplitPage(NewPage(s), node)

\* BPlusTree::InsertIntoParent, old_node is the root: the new root page is there.
InsertIntoParentNewRoot(s1, old_node, key, new_node) ==
  IF s1.fault # "none" THEN s1
  ELSE BatchReleaseLatch(UpdateRootPageId(UnpinPage(
         [SetRootPageId(s1, s1.sib)
            EXCEPT !.pages[s1.sib] =
                      [PopulateNewRoot(InternalInit(INVALID_PAGE_ID, s1.imax),
                                       old_node, key, new_node)
                         EXCEPT !.parent = s1.sib],
                   !.pages[old_node].parent = s1.sib],
         s1.sib), 0))

RECURSIVE InsertIntoParent(_, _, _, _)

\* BPlusTree::InsertIntoParent, the full parent: its image was split, the lower
\* half is copied back and the new sibling goes into the parent's parent.
InsertIntoParentSplit(s2, parent) ==
  IF s2.fault # "none" THEN s2
  ELSE UnpinPage(UnpinPage(
         InsertIntoParent([s2 EXCEPT !.pages[parent] = s2.node],
                          parent, KeyAt(s2.pages[s2.sib], 0), s2.sib),
         parent), s2.sib)

\* BPlusTree::InsertIntoParent, the parent page is fetched.
InsertIntoParentFetched(s1, old_node, key, new_node) ==
  IF s1.fault # "none" THEN s1
  ELSE LET parent == s1.pages[old_node].parent
       IN IF ValueIndex(s1.pages[parent], old_node) = NotFound THEN Fault(s1, "undefined")
          ELSE IF GetSize(s1.pages[parent]) < s1.imax
          THEN UnpinPage(BatchReleaseLatch(
                 [s1 EXCEPT !.pages[parent] = InsertNodeAfter(@, old_node, key, new_node)]),
                 parent)
          ELSE InsertIntoParentSplit(
                 Split(s1, InsertNodeAfter(s1.pages[parent], old_node, key, new_node)),
                 parent)

\* BPlusTree::InsertIntoParent.
InsertIntoParent(s, old_node, key, new_node) ==
  IF s.fault # "none" THEN s
  ELSE IF IsRootPage(s.pages[old_node])
  THEN InsertIntoParentNewRoot(NewPage(s), old_node, key, new_node)
  ELSE InsertIntoParentFetched(FetchPage(s, s.pages[old_node].parent),
                               old_node, key, new_node)

\* BPlusTree::InsertIntoLeaf, the full leaf was split: the leaves are linked
\* and the sibling goes into the parent.
InsertIntoLeafSplit(s2, leaf, old_next) ==
  IF s2.fault # "none" THEN s2
  ELSE SetRet(UnpinPage(UnpinPage(WUnlatch(
         InsertIntoParent([s2 EXCEPT !.pages[leaf] = [s2.node EXCEPT !.next = s2.sib],
                                     !.pages[s2.sib].next = old_next],
                          leaf, KeyAt(s2.pages[s2.sib], 0), s2.sib),
         leaf), leaf), s2.sib), TRUE)

\* BPlusTree::InsertIntoLeaf, the entry went into the leaf (or was there).
InsertIntoLeafInserted(s1, leaf, size) ==
  IF GetSize(s1.pages[leaf]) = size
  THEN SetRet(UnpinPage(WUnlatch(BatchReleaseLatch(s1), leaf), leaf), FALSE)
  ELSE IF GetSize(s1.pages[leaf]) < s1.lmax
  THEN SetRet(UnpinPage(WUnlatch(BatchReleaseLatch(s1), leaf), leaf), TRUE)
  ELSE InsertIntoLeafSplit(Split(s1, s1.pages[leaf]), leaf, s1.pages[leaf].next)

\* BPlusTree::InsertIntoLeaf, after FindLeaf.
InsertIntoLeafFound(s, key, value) ==
  IF s.fault # "none" THEN s
  ELSE InsertIntoLeafInserted([s EXCEPT !.pages[s.cur] = LeafInsert(@, key, value)],
                              s.cur, GetSize(s.pages[s.cur]))

\* BPlusTree::InsertIntoLeaf.
InsertIntoLeaf(s0, key, value) == InsertIntoLeafFound(FindLeaf(s0, key, "INSERT"), key, value)

\* BPlusTree::Insert, the root-id guard is held.
InsertLocked(s, key, value) ==
  IF s.fault # "none" THEN s
  ELSE IF IsEmpty(s) THEN SetRet(BatchReleaseLatch(StartNewTree(s, key, value)), TRUE)
  ELSE InsertIntoLeaf(s, key, value)

\* BPlusTree::Insert: s.ret is the returned flag.
Insert(s0, key, value) == InsertLocked(AddIntoPageSet(WLockRoot(s0), NullPage), key, value)

\* BPlusTree::AdjustRoot, the only child of the old root is fetched.
AdjustRootChild(s1, child) ==
  IF s1.fault # "none" THEN s1
  ELSE SetFlag(UnpinPage(UpdateRootPageId(
         [SetRootPageId(s1, child) EXCEPT !.pages[child].parent = INVALID_PAGE_ID], 0),
         child), TRUE)

\* BPlusTree::AdjustRoot: s.flag is the returned flag.
AdjustRoot(s, old_root) ==
  IF s.fault # "none" THEN s
  ELSE IF ~IsLeafPage(s.pages[old_root]) /\ GetSize(s.pages[old_root]) = 1
  THEN AdjustRootChild(FetchPage(s, ValueAt(s.pages[old_root], 0)),
                       ValueAt(s.pages[old_root], 0))
  ELSE IF IsLeafPage(s.pages[old_root]) /\ GetSize(s.pages[old_root]) = 0
  THEN [SetRootPageId(s, INVALID_PAGE_ID) EXCEPT !.flag = TRUE]
  ELSE [s EXCEPT !.flag = FALSE]

\* Leaf page MoveFirstToEndOf / MoveLastToFrontOf / MoveAllTo, as
\* [from |-> the page after the move, to |-> the recipient after the move].
LeafMoveFirstToEndOf(from, to) ==
  [from |-> [from EXCEPT !.keys = Tail(@), !.vals = Tail(@)],
   to |-> [to EXCEPT !.keys = Append(@, from.keys[1]), !.vals = Append(@, from.vals[1])]]

LeafMoveLastToFrontOf(from, to) ==
  [from |-> [from EXCEPT !.keys = SubSeq(@, 1, Len(from.keys) - 1),
                         !.vals = SubSeq(@, 1, Len(from.keys) - 1)],
   to |-> [to EXCEPT !.keys = <<from.keys[Len(from.keys)]>> \o @,
                     !.vals = <<from.vals[Len(from.keys)]>> \o @]]

LeafMoveAllTo(from, to) ==
  [from |-> [from EXCEPT !.keys = <<>>, !.vals = <<>>],
   to |-> [to EXCEPT !.keys = @ \o from.keys, !.vals = @ \o from.vals, !.next = from.next]]

\* Internal page MoveFirstToEndOf / MoveLastToFrontOf / MoveAllTo: the
\* separator of the parent (middle_key) moves down into the recipient.
InternalMoveFirstToEndOf(from, to, middle_key) ==
  [from |-> [from EXCEPT !.keys = Tail(@), !.vals = Tail(@)],
   to |-> [to EXCEPT !.keys = Append(@, middle_key), !.vals = Append(@, from.vals[1])]]

InternalMoveLastToFrontOf(from, to, middle_key) ==
  [from |-> [from EXCEPT !.keys = SubSeq(@, 1, Len(from.keys) - 1),
                         !.vals = SubSeq(@, 1, Len(from.keys) - 1)],
   to |-> [to EXCEPT !.keys = <<from.keys[Len(from.keys)], middle_key>> \o Tail(@),
                     !.vals = <<from.vals[Len(from.keys)]>> \o @]]

InternalMoveAllTo(from, to, middle_key) ==
  [from |-> [from EXCEPT !.keys = <<>>, !.vals = <<>>],
   to |-> [to EXCEPT !.keys = @ \o (<<middle_key>> \o Tail(from.keys)), !.vals = @ \o from.vals]]

\* BPlusTree::Redistribute between two leaf pages.
RedistributeLeaf(s, neighbor, node, parent, index, from_prev) ==
  IF ~from_prev
  THEN [s EXCEPT
          !.pages[neighbor] = LeafMoveFirstToEndOf(s.pages[neighbor], s.pages[node]).from,
          !.pages[node] = LeafMoveFirstToEndOf(s.pages[neighbor], s.pages[node]).to,
          !.pages[parent] =
             SetKeyAt(@, index + 1,
                      KeyAt(LeafMoveFirstToEndOf(s.pages[neighbor], s.pages[node]).from, 0))]
  ELSE [s EXCEPT
          !.pages[neighbor] = LeafMoveLastToFrontOf(s.pages[neighbor], s.pages[node]).from,
          !.pages[node] = LeafMoveLastToFrontOf(s.pages[neighbor], s.pages[node]).to,
          !.pages[parent] =
             SetKeyAt(@, index,
                      KeyAt(LeafMoveLastToFrontOf(s.pages[neighbor], s.pages[node]).from, 0))]

\* BPlusTree::Redistribute between two internal pages.
RedistributeInternal(s, neighbor, node, parent, index, from_prev) ==
  IF ~from_prev
  THEN AdoptChildren(
         [s EXCEPT
            !.pages[neighbor] =
               InternalMoveFirstToEndOf(s.pages[neighbor], s.pages[node],
                                        KeyAt(s.pages[parent], index + 1)).from,
            !.pages[node] =
               InternalMoveFirstToEndOf(s.pages[neighbor], s.pages[node],
                                        KeyAt(s.pages[parent], index + 1)).to,
            !.pages[parent] = SetKeyAt(@, index + 1, KeyAt(s.pages[neighbor], 1))],
         <<ValueAt(s.pages[neighbor], 0)>>, node)
  ELSE AdoptChildren(
         [s EXCEPT
            !.pages[neighbor] =
               InternalMoveLastToFrontOf(s.pages[neighbor], s.pages[node],
                                         KeyAt(s.pages[parent], index)).from,
            !.pages[node] =
               InternalMoveLastToFrontOf(s.pages[neighbor], s.pages[node],
                                         KeyAt(s.pages[parent], index)).to,
            !.pages[parent] = SetKeyAt(@, index, KeyAt(s.pages[neighbor], 0))],
         <<ValueAt(s.pages[neighbor], GetSize(s.pages[neighbor]) - 1)>>, node)

\* BPlusTree::Redistribute.
Redistribute(s, neighbor, node, parent, index, from_prev) ==
  IF s.fault # "none" THEN s
  ELSE IF IsLeafPage(s.pages[node])
  THEN RedistributeLeaf(s, neighbor, node, parent, index, from_prev)
  ELSE RedistributeInternal(s, neighbor, node, parent, index, from_prev)

RECURSIVE CoalesceOrRedistribute(_, _)

\* BPlusTree::Coalesce, the entries are moved: the parent loses the entry and
\* is itself looked at.
CoalesceMoved(s1, parent, index) ==
  IF s1.fault # "none" THEN s1
  ELSE CoalesceOrRedistribute([s1 EXCEPT !.pages[parent] = InternalRemove(@, index)], parent)

\* BPlusTree::Coalesce: node is emptied into neighbor_node.
Coalesce(s, neighbor, node, parent, index) ==
  IF s.fault # "none" THEN s
  ELSE IF index < 0 \/ index + 1 > GetSize(s.pages[parent]) THEN Fault(s, "undefined")
  ELSE IF IsLeafPage(s.pages[node])
  THEN CoalesceMoved(
         [s EXCEPT !.pages[node] = LeafMoveAllTo(s.pages[node], s.pages[neighbor]).from,
                   !.pages[neighbor] = LeafMoveAllTo(s.pages[node], s.pages[neighbor]).to],
         parent, index)
  ELSE CoalesceMoved(
         AdoptChildren(
           [s EXCEPT
              !.pages[node] =
                 InternalMoveAllTo(s.pages[node], s.pages[neighbor],
                                   KeyAt(s.pages[parent], index)).from,
              !.pages[neighbor] =
                 InternalMoveAllTo(s.pages[node], s.pages[neighbor],
                                   KeyAt(s.pages[parent], index)).to],
           s.pages[node].vals, neighbor),
         parent, index)

\* BPlusTree::CoalesceOrRedistribute, after Redistribute with either sibling.
CoalesceOrRedistributeDone(s3, parent, sibling) ==
  SetFlag(UnpinPage(WUnlatch(UnpinPage(BatchReleaseLatch(s3), parent), sibling), sibling),
          FALSE)

\* BPlusTree::CoalesceOrRedistribute, after the right sibling was merged into node.
CoalesceOrRedistributeRightMerged(s2, parent, sibling) ==
  SetFlag(UnpinPage(WUnlatch(UnpinPage(
            IF s2.flag
            THEN AddIntoDeletedPageSet(AddIntoDeletedPageSet(s2, sibling), parent)
            ELSE AddIntoDeletedPageSet(s2, sibling),
            parent), sibling), sibling),
          FALSE)

\* BPlusTree::CoalesceOrRedistribute, the right sibling is fetched and latched.
CoalesceOrRedistributeRightLatched(s1, node, parent, index, sibling) ==
  IF s1.fault # "none" THEN s1
  ELSE IF GetSize(s1.pages[sibling]) > GetMinSize(s1.pages[sibling])
  THEN CoalesceOrRedistributeDone(
         Redistribute(s1, sibling, node, parent, index, FALSE), parent, sibling)
  ELSE CoalesceOrRedistributeRightMerged(
         Coalesce(s1, node, sibling, parent, ValueIndex(s1.pages[parent], sibling)),
         parent, sibling)

\* BPlusTree::CoalesceOrRedistribute, from the test of the right sibling on
\* (also reached after a merge into the left sibling that returned false).
CoalesceOrRedistributeRight(s, node, parent, index) ==
  IF s.fault # "none" THEN s
  ELSE IF index = GetSize(s.pages[parent]) - 1 THEN SetFlag(s, FALSE)
  ELSE IF index + 1 > GetSize(s.pages[parent]) - 1 \/ index + 1 < 0
  THEN Fault(s, "undefined")
  ELSE CoalesceOrRedistributeRightLatched(
         WLatch(FetchPage(s, ValueAt(s.pages[parent], index + 1)),
                ValueAt(s.pages[parent], index + 1)),
         node, parent, index, ValueAt(s.pages[parent], index + 1))

\* BPlusTree::CoalesceOrRedistribute, after node was merged into the left sibling.
CoalesceOrRedistributeLeftMerged(s3, node, parent, index, sibling) ==
  IF s3.fault # "none" THEN s3
  ELSE IF s3.flag
  THEN SetFlag(UnpinPage(WUnlatch(AddIntoDeletedPageSet(s3, parent), sibling), sibling), TRUE)
  ELSE CoalesceOrRedistributeRight(s3, node, parent, index)

\* BPlusTree::CoalesceOrRedistribute, the left sibling is fetched and latched.
CoalesceOrRedistributeLeftLatched(s2, node, parent, index, sibling) ==
  IF s2.fault # "none" THEN s2
  ELSE IF GetSize(s2.pages[sibling]) > GetMinSize(s2.pages[sibling])
  THEN CoalesceOrRedistributeDone(
         Redistribute(s2, sibling, node, parent, index, TRUE), parent, sibling)
  ELSE CoalesceOrRedistributeLeftMerged(
         Coalesce(s2, sibling, node, parent, index), node, parent, index, sibling)

\* BPlusTree::CoalesceOrRedistribute, the parent page is fetched.
CoalesceOrRedistributeParent(s1, node) ==
  IF s1.fault # "none" THEN s1
  ELSE LET parent == s1.pages[node].parent
           index == ValueIndex(s1.pages[s1.pages[node].parent], node)
       IN IF index = NotFound THEN Fault(s1, "undefined")
          ELSE IF index > 0
          THEN CoalesceOrRedistributeLeftLatched(
                 WLatch(FetchPage(s1, ValueAt(s1.pages[parent], index - 1)),
                        ValueAt(s1.pages[parent], index - 1)),
                 node, parent, index, ValueAt(s1.pages[parent], index - 1))
          ELSE CoalesceOrRedistributeRight(s1, node, parent, index)

\* BPlusTree::CoalesceOrRedistribute: s.flag is the returned flag.
CoalesceOrRedistribute(s, node) ==
  IF s.fault # "none" THEN s
  ELSE IF IsRootPage(s.pages[node]) THEN BatchReleaseLatch(AdjustRoot(s, node))
  ELSE IF GetSize(s.pages[node]) >= GetMaxSize(s.pages[node])
  THEN SetFlag(BatchReleaseLatch(s), FALSE)
  ELSE CoalesceOrRedistributeParent(FetchPage(s, s.pages[node].parent), node)

\* The deleted page set is handed to DeletePage page by page and cleared.
RECURSIVE DeletePages(_)
DeletePages(s) ==
  IF s.fault # "none" \/ s.del = {} THEN s
  ELSE DeletePages([DeletePage(s, CHOOSE x \in s.del : TRUE)
                      EXCEPT !.del = @ \ {CHOOSE x \in s.del : TRUE}])

\* BPlusTree::Remove, after CoalesceOrRedistribute.
RemoveFinish(s1, leaf) ==
  SetRet(DeletePages(UnpinPage(
           IF s1.flag THEN AddIntoDeletedPageSet(WUnlatch(s1, leaf), leaf)
           ELSE WUnlatch(s1, leaf),
           leaf)),
         TRUE)

\* BPlusTree::Remove, after FindLeaf.
RemoveFound(f, key) ==
  IF f.fault # "none" THEN f
  ELSE IF ~HasKey(f.pages[f.cur], key)
  THEN SetRet(UnpinPage(WUnlatch(BatchReleaseLatch(f), f.cur), f.cur), FALSE)
  ELSE RemoveFinish(
         CoalesceOrRedistribute([f EXCEPT !.pages[f.cur] = RemoveAndDeleteRecord(@, key)],
                                f.cur),
         f.cur)

\* BPlusTree::Remove, the root-id guard is held.
RemoveLocked(s, key) ==
  IF s.fault # "none" THEN s
  ELSE IF IsEmpty(s) THEN SetRet(BatchReleaseLatch(s), FALSE)
  ELSE RemoveFound(FindLeaf(s, key, "DELETE"), key)

\* BPlusTree::Remove: s.ret tells whether the leaf held the key.
Remove(s0, key) == RemoveLocked(AddIntoPageSet(WLockRoot(s0), NullPage), key)

(***************************************************************************)
(* The LRU-K replacer.  history_cnt_ and evictable_ are maps: functions    *)
(* whose domain is the set of keys the map holds.  history_list_ and       *)
(* buffer_list_ are lists, front first.  A replacer is a record            *)
(*   [k, cap, hist, buf, cnt, ev, size, fault, ret, out, thrown].          *)
(***************************************************************************)
\* Bounds of the replacer model.
MaxReplacerSize == 2
MaxCount == 3

KValues == {2}
ReplacerSizes == {MaxReplacerSize}
\* The frame ids callers pass: the valid ones and the first two beyond them.
FrameIds == 0..(MaxReplacerSize + 1)

EmptyMap == [x \in {} |-> 0]
MapHas(m, f) == f \in DOMAIN m
MapPut(m, f, v) == [x \in (DOMAIN m) \cup {f} |-> IF x = f THEN v ELSE m[x]]
MapErase(m, f) == [x \in (DOMAIN m) \ {f} |-> m[x]]
\* std::unordered_map::operator[]: a missing key is inserted with the default.
MapTouch(m, f, default) == IF MapHas(m, f) THEN m ELSE MapPut(m, f, default)

ListHas(list, f) == \E i \in 1..Len(list) : list[i] = f
ListRemove(list, f) == SelectSeq(list, LAMBDA x : x # f)

\* LRUKReplacer::InsertHistory: the frame goes to the front of history_list_.
InsertHistory(r, f) == [r EXCEPT !.hist = <<f>> \o ListRemove(@, f)]
\* LRUKReplacer::RemoveNodeHistory: the frame, if there, leaves history_list_.
RemoveNodeHistory(r, f) == [r EXCEPT !.hist = ListRemove(@, f)]
\* LRUKReplacer::InsertBuffer: the frame goes (or moves) to the front of buffer_list_.
InsertBuffer(r, f) == [r EXCEPT !.buf = <<f>> \o ListRemove(@, f)]
\* LRUKReplacer::RemoveNodeBuffer.
RemoveNodeBuffer(r, f) == [r EXCEPT !.buf = ListRemove(@, f)]

\* LRUKReplacer::IsFull is one of: as many frames tracked as the replacer
\* has room for, or as many evictable frames as the replacer has room for.
IsFullOutcomes(r) == {Len(r.hist) + Len(r.buf) >= r.cap, r.size >= r.cap}

\* The loop "for iter = list.rbegin() ...: if (evictable_[*iter])": the rear-most
\* frame of the list whose flag is set; evictable_[] inserts the missing flags
\* it reads.
RECURSIVE ScanRear(_, _, _)
ScanRear(list, ev, i) ==
  IF i = 0 THEN [found |-> FALSE, frame |-> 0, ev |-> ev]
  ELSE IF MapTouch(ev, list[i], FALSE)[list[i]]
  THEN [found |-> TRUE, frame |-> list[i], ev |-> MapTouch(ev, list[i], FALSE)]
  ELSE ScanRear(list, MapTouch(ev, list[i], FALSE), i - 1)

\* The victim found in a list is forgotten.
EraseVictim(r, scan) ==
  [r EXCEPT !.ev = MapErase(scan.ev, scan.frame),
            !.cnt = MapErase(@, scan.frame),
            !.size = @ - 1,
            !.hist = ListRemove(@, scan.frame),
            !.buf = ListRemove(@, scan.frame),
            !.out = scan.frame,
            !.ret = TRUE]

\* The scan of buffer_list_ (Evict, and RecordAccess on a full replacer).
EvictBuffer(r, scan) ==
  IF scan.found THEN EraseVictim(r, scan) ELSE [r EXCEPT !.ev = scan.ev, !.ret = FALSE]

\* The scan of history_list_ (Evict, and RecordAccess on a full replacer).
EvictHistory(r, scan) ==
  IF scan.found THEN EraseVictim(r, scan)
  ELSE EvictBuffer(r, ScanRear(r.buf, scan.ev, Len(r.buf)))

\* LRUKReplacer::Evict: r.ret is the returned flag, r.out the frame written.
Evict(r) ==
  IF r.size = 0 THEN [r EXCEPT !.ret = FALSE]
  ELSE EvictHistory(r, ScanRear(r.hist, r.ev, Len(r.hist)))

\* LRUKReplacer::RecordAccess, from ++history_cnt_[frame_id] on.
RecordAccessCount(r, f) ==
  IF MapTouch(r.cnt, f, 0)[f] + 1 >= r.k
  THEN InsertBuffer(RemoveNodeHistory(
         [r EXCEPT !.cnt = MapPut(@, f, MapTouch(r.cnt, f, 0)[f] + 1)], f), f)
  ELSE [r EXCEPT !.cnt = MapPut(@, f, MapTouch(r.cnt, f, 0)[f] + 1)]

\* LRUKReplacer::RecordAccess, a frame without a count: the new frame enters
\* history_list_ as not evictable.
RecordAccessNew(r, f) ==
  RecordAccessCount([InsertHistory(r, f) EXCEPT !.ev = MapPut(@, f, FALSE)], f)

\* LRUKReplacer::RecordAccess, the replacer is full and was scanned for a
\* victim (e.ret): without a victim the access is dropped.
RecordAccessScanned(e, f) == IF e.ret THEN RecordAccessNew(e, f) ELSE e

\* LRUKReplacer::RecordAccess, the replacer is full.
RecordAccessFull(r, f) ==
  RecordAccessScanned(EvictHistory(r, ScanRear(r.hist, r.ev, Len(r.hist))), f)

\* LRUKReplacer::RecordAccess; full is what IsFull() answers.
RecordAccess(r, f, full) ==
  IF ~(f <= r.cap) THEN [r EXCEPT !.fault = "assert"]
  ELSE IF ~MapHas(r.cnt, f)
  THEN (IF full THEN RecordAccessFull(r, f) ELSE RecordAccessNew(r, f))
  ELSE RecordAccessCount(r, f)

\* SetEvictable that clears the flag of an evictable frame without taking the
\* frame out of curr_size_.
SetEvictableFlagKeepsSize(r, f, set_evictable) ==
  IF r.ev[f] /\ ~set_evictable
  THEN [r EXCEPT !.ev = MapPut(@, f, FALSE)]
  ELSE IF ~r.ev[f] /\ set_evictable
  THEN [r EXCEPT !.size = @ + 1, !.ev = MapPut(@, f, TRUE)]
  ELSE r

\* LRUKReplacer::SetEvictable, the frame has a count that is not zero.
SetEvictableFlag(r, f, set_evictable) ==
  IF r.ev[f] /\ ~set_evictable
  THEN [r EXCEPT !.size = @ - 1, !.ev = MapPut(@, f, FALSE)]
  ELSE IF ~r.ev[f] /\ set_evictable
  THEN [r EXCEPT !.size = @ + 1, !.ev = MapPut(@, f, TRUE)]
  ELSE r

\* LRUKReplacer::SetEvictable.
SetEvictable(r, f, set_evictable) ==
  IF ~(f <= r.cap) THEN [r EXCEPT !.fault = "assert"]
  ELSE IF MapTouch(r.cnt, f, 0)[f] = 0 THEN [r EXCEPT !.cnt = MapTouch(@, f, 0)]
  ELSE SetEvictableFlag([r EXCEPT !.ev = MapTouch(@, f, FALSE)], f, set_evictable)

\* Remove that does not look at the flag of the frame.
RemoveFrameUnchecked(r, f) ==
  [r EXCEPT !.hist = IF r.cnt[f] < r.k THEN ListRemove(@, f) ELSE @,
            !.buf = IF r.cnt[f] < r.k THEN @ ELSE ListRemove(@, f),
            !.size = @ - 1,
            !.cnt = MapErase(@, f),
            !.ev = MapErase(@, f)]

\* LRUKReplacer::Remove, the frame has a count that is not zero.
RemoveFrame(r, f) ==
  IF ~r.ev[f] THEN [r EXCEPT !.thrown = TRUE]
  ELSE [r EXCEPT !.hist = IF r.cnt[f] < r.k THEN ListRemove(@, f) ELSE @,
                 !.buf = IF r.cnt[f] < r.k THEN @ ELSE ListRemove(@, f),
                 !.size = @ - 1,
                 !.cnt = MapErase(@, f),
                 !.ev = MapErase(@, f)]

\* LRUKReplacer::Remove: r.thrown tells that std::exception was thrown.
ReplacerRemove(r, f) ==
  IF ~(f <= r.cap) THEN [r EXCEPT !.fault = "assert"]
  ELSE IF ~MapHas(r.cnt, f) THEN r
  ELSE IF r.cnt[f] = 0 THEN r
  ELSE RemoveFrame([r EXCEPT !.ev = MapTouch(@, f, FALSE)], f)

\* LRUKReplacer::Size.
Size(r) == r.size

(***************************************************************************)
(* The extendible hash table (extendible_hash_table.cpp).  A table is a    *)
(* record h: gd is global_depth_, size bucket_size_, num num_buckets_, dir *)
(* is dir_ (slot i of the code is dir[i + 1]) and holds bucket ids, and    *)
(* buckets maps the ids of the buckets the directory shares to the         *)
(* buckets, each [size, depth, list] with list a sequence of <<key, value>>.*)
(***************************************************************************)
\* Bounds of the model of the hash table.
MaxHashKey == 5
MaxHashVal == 2
MaxBucketSize == 2

HashKeys == 0..MaxHashKey
HashVals == 1..MaxHashVal
BucketSizes == 1..MaxBucketSize

RECURSIVE Pow2(_)
Pow2(n) == IF n = 0 THEN 1 ELSE 2 * Pow2(n - 1)

\* std::hash<K>()(key) for the integer keys of the table: the key itself.
Hash(key) == key

\* x & ((1 << depth) - 1), and (x & (1 << depth)) != 0.
LowBits(x, depth) == x % Pow2(depth)
BitSet(x, depth) == (x \div Pow2(depth)) % 2 = 1

\* Bucket::Bucket.
NewBucket(array_size, depth) == [size |-> array_size, depth |-> depth, list |-> <<>>]

\* Bucket::IsFull and Bucket::GetDepth.
BucketIsFull(b) == Len(b.list) = b.size
GetDepth(b) == b.depth

\* Bucket::Find: the first pair with the key; value = {} if there is none.
RECURSIVE BucketFindFrom(_, _, _)
BucketFindFrom(list, key, i) ==
  IF i > Len(list) THEN [found |-> FALSE, value |-> 0]
  ELSE IF list[i][1] = key THEN [found |-> TRUE, value |-> list[i][2]]
  ELSE BucketFindFrom(list, key, i + 1)

BucketFind(b, key) == BucketFindFrom(b.list, key, 1)

\* Bucket::Remove: list_.remove({key, val}) for the value Find gave.
BucketRemove(b, key) ==
  IF BucketFind(b, key).found
  THEN [bucket |-> [b EXCEPT !.list =
                      SelectSeq(@, LAMBDA e : e # <<key, BucketFind(b, key).value>>)],
        ret |-> TRUE]
  ELSE [bucket |-> b, ret |-> FALSE]

\* Bucket::Insert: the value of a key that is there is overwritten, a new
\* pair is appended unless the bucket is full.
BucketInsert(b, key, value) ==
  IF \E i \in 1..Len(b.list) : b.list[i][1] = key
  THEN [bucket |-> [b EXCEPT !.list =
                      [i \in 1..Len(b.list) |->
                         IF b.list[i][1] = key /\ \A j \in 1..(i - 1) : b.list[j][1] # key
                         THEN <<key, value>> ELSE b.list[i]]],
        ret |-> TRUE]
  ELSE IF BucketIsFull(b) THEN [bucket |-> b, ret |-> FALSE]
  ELSE [bucket |-> [b EXCEPT !.list = Append(@, <<key, value>>)], ret |-> TRUE]

\* ExtendibleHashTable::IndexOf.
IndexOf(h, key) == LowBits(Hash(key), h.gd)

\* dir_[index], as the id of the bucket.
DirAt(h, index) == h.dir[index + 1]

\* ExtendibleHashTable::GetLocalDepthInternal.
GetLocalDepthInternal(h, dir_index) == GetDepth(h.buckets[DirAt(h, dir_index)])

\* ExtendibleHashTable::GetGlobalDepthInternal and GetNumBucketsInternal.
GetGlobalDepthInternal(h) == h.gd
GetNumBucketsInternal(h) == h.num

\* ExtendibleHashTable::Find: h.ret is the returned flag, h.value the value.
HashFind(h, key) ==
  [h EXCEPT !.ret = BucketFind(h.buckets[DirAt(h, IndexOf(h, key))], key).found,
            !.value = BucketFind(h.buckets[DirAt(h, IndexOf(h, key))], key).value]

\* Remove that looks for the key in the bucket of slot 0 only.
HashRemoveSlotZero(h, key) ==
  [h EXCEPT !.buckets[DirAt(h, 0)] = BucketRemove(@, key).bucket,
            !.ret = BucketRemove(h.buckets[DirAt(h, 0)], key).ret]

\* ExtendibleHashTable::Remove: h.ret is the returned flag.
HashRemove(h, key) ==
  [h EXCEPT !.buckets[DirAt(h, IndexOf(h, key))] = BucketRemove(@, key).bucket,
            !.ret = BucketRemove(h.buckets[DirAt(h, IndexOf(h, key))], key).ret]

\* std::make_shared<Bucket>: a bucket no slot and no local refers to; the
\* model names it by the least id that is not in use.
FreshId(used) == CHOOSE n \in 1..(Cardinality(used) + 1) :
                   n \notin used /\ \A m \in 1..(n - 1) : m \in used

\* The doubling with the loop bound i <= len: one slot too many is copied.
SplitDoubleOneMore(h, index) ==
  IF GetLocalDepthInternal(h, index) = GetGlobalDepthInternal(h)
  THEN [h EXCEPT !.gd = @ + 1, !.dir = (@ \o @) \o <<@[1]>>]
  ELSE h

\* Insert, the split loop: the directory doubles if the target bucket is as
\* deep as the directory.
SplitDouble(h, index) ==
  IF GetLocalDepthInternal(h, index) = GetGlobalDepthInternal(h)
  THEN [h EXCEPT !.gd = @ + 1, !.dir = @ \o @]
  ELSE h

\* The allocation that counts both fresh buckets.
SplitAllocateCountsBoth(h, tar, b0, b1) ==
  [h EXCEPT !.buckets = MapPut(MapPut(@, b0, NewBucket(h.size, GetDepth(h.buckets[tar]) + 1)),
                               b1, NewBucket(h.size, GetDepth(h.buckets[tar]) + 1)),
            !.num = @ + 2]

\* Insert, the split loop: two fresh buckets one deeper than the target.
SplitAllocate(h, tar, b0, b1) ==
  [h EXCEPT !.buckets = MapPut(MapPut(@, b0, NewBucket(h.size, GetDepth(h.buckets[tar]) + 1)),
                               b1, NewBucket(h.size, GetDepth(h.buckets[tar]) + 1)),
            !.num = @ + 1]

\* Insert, the split loop: the pairs of the target go to bucket1 or bucket0
\* by the bit of their hash that mask = 1 << depth selects.
RECURSIVE SplitRehash(_, _, _, _, _)
SplitRehash(h, tar, b0, b1, i) ==
  IF i > Len(h.buckets[tar].list) THEN h
  ELSE IF BitSet(Hash(h.buckets[tar].list[i][1]), GetDepth(h.buckets[tar]))
  THEN SplitRehash([h EXCEPT !.buckets[b1] =
                      BucketInsert(@, h.buckets[tar].list[i][1], h.buckets[tar].list[i][2]).bucket],
                   tar, b0, b1, i + 1)
  ELSE SplitRehash([h EXCEPT !.buckets[b0] =
                      BucketInsert(@, h.buckets[tar].list[i][1], h.buckets[tar].list[i][2]).bucket],
                   tar, b0, b1, i + 1)

\* Insert, the split loop: every slot that holds the target is pointed at
\* bucket1 or bucket0 by the same bit of the slot number; the target has no
\* reference left once the loop is through with it.
SplitRedirect(h, tar, b0, b1) ==
  [h EXCEPT !.dir = [i \in 1..Len(h.dir) |->
                       IF h.dir[i] = tar
                       THEN (IF BitSet(i - 1, GetDepth(h.buckets[tar])) THEN b1 ELSE b0)
                       ELSE h.dir[i]],
            !.buckets = MapErase(@, tar)]

\* Insert, one turn of the split loop on the bucket tar of slot index.
SplitBucketInto(h, index, tar, b0, b1) ==
  SplitRedirect(SplitRehash(SplitAllocate(SplitDouble(h, index), tar, b0, b1),
                            tar, b0, b1, 1),
                tar, b0, b1)

SplitBucket(h, index) ==
  SplitBucketInto(h, index, DirAt(h, index),
                  FreshId(DOMAIN h.buckets),
                  FreshId(DOMAIN h.buckets \cup {FreshId(DOMAIN h.buckets)}))

\* Insert without the split loop.
SplitLoopSkipped(h, key) == h

\* Insert with a split loop that takes one turn at most.
SplitLoopOnce(h, key) ==
  IF BucketIsFull(h.buckets[DirAt(h, IndexOf(h, key))])
  THEN SplitBucket(h, IndexOf(h, key))
  ELSE h

\* Insert, the loop "while (dir_[IndexOf(key)]->IsFull())".
RECURSIVE SplitLoop(_, _)
SplitLoop(h, key) ==
  IF BucketIsFull(h.buckets[DirAt(h, IndexOf(h, key))])
  THEN SplitLoop(SplitBucket(h, IndexOf(h, key)), key)
  ELSE h

\* The pair goes into the bucket of slot 0 whenever that bucket has room.
InsertIntoBucketOfSlotZero(h, key, value) ==
  IF BucketIsFull(h.buckets[DirAt(h, 0)])
  THEN [h EXCEPT !.buckets[DirAt(h, IndexOf(h, key))] = BucketInsert(@, key, value).bucket]
  ELSE [h EXCEPT !.buckets[DirAt(h, 0)] = BucketInsert(@, key, value).bucket]

\* Insert, after the loop: the pair goes into the bucket of its slot.
InsertIntoBucket(h, key, value) ==
  [h EXCEPT !.buckets[DirAt(h, IndexOf(h, key))] = BucketInsert(@, key, value).bucket]

\* Insert, a key that is there with another value is removed first.
InsertRemoveOld(h, key) ==
  [h EXCEPT !.buckets[DirAt(h, IndexOf(h, key))] = BucketRemove(@, key).bucket]

\* Insert that takes a slot with a bucket of room for full when its key is odd.
HashInsertSplitsOdd(h, key, value) ==
  IF BucketFind(h.buckets[DirAt(h, IndexOf(h, key))], key).found
  THEN IF BucketFind(h.buckets[DirAt(h, IndexOf(h, key))], key).value = value
       THEN h
       ELSE InsertIntoBucket(SplitLoop(InsertRemoveOld(h, key), key), key, value)
  ELSE IF key % 2 = 1 /\ h.buckets[DirAt(h, IndexOf(h, key))].list # <<>>
  THEN InsertIntoBucket(SplitLoop(SplitBucket(h, IndexOf(h, key)), key), key, value)
  ELSE InsertIntoBucket(SplitLoop(h, key), key, value)

\* ExtendibleHashTable::Insert.
HashInsert(h, key, value) ==
  IF BucketFind(h.buckets[DirAt(h, IndexOf(h, key))], key).found
  THEN IF BucketFind(h.buckets[DirAt(h, IndexOf(h, key))], key).value = value
       THEN h
       ELSE InsertIntoBucket(SplitLoop(InsertRemoveOld(h, key), key), key, value)
  ELSE InsertIntoBucket(SplitLoop(h, key), key, value)

(***************************************************************************)
(* The components as state machines.                                       *)
(***************************************************************************)
\* Bounds of the model of threads calling into one tree.
NumThreads == 2
MaxThreadKey == 3

Threads == 1..NumThreads
ThreadKeys == 1..MaxThreadKey

VARIABLES
  root_page_id_,      \* BPlusTree::root_page_id_
  leaf_max_size_,     \* BPlusTree::leaf_max_size_
  internal_max_size_, \* BPlusTree::internal_max_size_
  root_page_latch_,   \* the root-id guard: 0 free, -1 write-locked, n read-locked
  pages,              \* the pages of the buffer pool
  next_page_id,       \* the next page id NewPage hands out
  pin_count,          \* pin count of every page
  wlatch,             \* the pages that are write-latched
  rlatch,             \* read-latch count of every page
  page_set,           \* Transaction::page_set_
  deleted_page_set,   \* Transaction::deleted_page_set_
  header_record,      \* the header page's record for this index
  fault,              \* "none", or how the process stopped being well defined
  oracle,             \* reference map: the value each key should have, 0 if none
  live_count,         \* successful inserts minus removals of present keys
  pending,            \* per thread: the call it has made and not returned from
  k_,                 \* LRUKReplacer::k_
  replacer_size_,     \* LRUKReplacer::replacer_size_
  history_list_,      \* LRUKReplacer::history_list_, front first
  buffer_list_,       \* LRUKReplacer::buffer_list_, front first
  history_cnt_,       \* LRUKReplacer::history_cnt_
  evictable_,         \* LRUKReplacer::evictable_
  curr_size_,         \* LRUKReplacer::curr_size_
  replacer_fault,     \* "none", or the assertion that stopped the process
  first_order,        \* reference: tracked frames by first access, earliest first
  recent_order,       \* reference: tracked frames by last access, oldest first
  bucket_size_,       \* ExtendibleHashTable::bucket_size_
  global_depth_,      \* ExtendibleHashTable::global_depth_
  num_buckets_,       \* ExtendibleHashTable::num_buckets_
  dir_,               \* ExtendibleHashTable::dir_, as bucket ids
  buckets,            \* the buckets dir_ refers to, by id
  hash_ref,           \* reference map: the value each key should have, 0 if none
  find_result         \* what the last call returned, if it was a Find

treeVars ==
  <<root_page_id_, leaf_max_size_, internal_max_size_, root_page_latch_, pages,
    next_page_id, pin_count, wlatch, rlatch, page_set, deleted_page_set,
    header_record, fault, oracle, live_count>>

replacerVars ==
  <<k_, replacer_size_, history_list_, buffer_list_, history_cnt_, evictable_,
    curr_size_, replacer_fault, first_order, recent_order>>

hashVars ==
  <<bucket_size_, global_depth_, num_buckets_, dir_, buckets, hash_ref, find_result>>

vars == <<treeVars, pending, replacerVars, hashVars>>

\* The tree, the buffer pool and the transaction as one record.
TreeState ==
  [root |-> root_page_id_, lmax |-> leaf_max_size_, imax |-> internal_max_size_,
   guard |-> root_page_latch_, pages |-> pages, next |-> next_page_id,
   pins |-> pin_count, wl |-> wlatch, rl |-> rlatch, pset |-> page_set,
   del |-> deleted_page_set, hdr |-> header_record, fault |-> fault,
   oom |-> FALSE, cur |-> INVALID_PAGE_ID, sib |-> INVALID_PAGE_ID,
   node |-> FreePage, flag |-> FALSE, ret |-> FALSE, result |-> <<>>,
   unguarded |-> FALSE]

Commit(s) ==
  /\ root_page_id_' = s.root
  /\ root_page_latch_' = s.guard
  /\ pages' = s.pages
  /\ next_page_id' = s.next
  /\ pin_count' = s.pins
  /\ wlatch' = s.wl
  /\ rlatch' = s.rl
  /\ page_set' = s.pset
  /\ deleted_page_set' = s.del
  /\ header_record' = s.hdr
  /\ fault' = s.fault
  /\ UNCHANGED <<leaf_max_size_, internal_max_size_>>

\* BPlusTree::BPlusTree on an empty buffer pool.
TreeInit ==
  /\ root_page_id_ = INVALID_PAGE_ID
  /\ leaf_max_size_ \in LeafSizes
  /\ internal_max_size_ \in InternalSizes
  /\ root_page_latch_ = 0
  /\ pages = [p \in PageIds |-> FreePage]
  /\ next_page_id = 1
  /\ pin_count = [p \in 0..MaxPageId |-> 0]
  /\ wlatch = {}
  /\ rlatch = [p \in PageIds |-> 0]
  /\ page_set = <<>>
  /\ deleted_page_set = {}
  /\ header_record = NoRecord
  /\ fault = "none"
  /\ oracle = [k \in Keys |-> 0]
  /\ live_count = 0

\* No thread has a call open.
NoCall ==
  [op |-> "none", key |-> 0, phase |-> "idle", ret |-> FALSE, result |-> <<>>,
   page |-> INVALID_PAGE_ID, pset |-> <<>>]

ThreadsInit == pending = [t \in Threads |-> NoCall]

\* LRUKReplacer::LRUKReplacer.
ReplacerInit ==
  /\ k_ \in KValues
  /\ replacer_size_ \in ReplacerSizes
  /\ history_list_ = <<>>
  /\ buffer_list_ = <<>>
  /\ history_cnt_ = EmptyMap
  /\ evictable_ = EmptyMap
  /\ curr_size_ = 0
  /\ replacer_fault = "none"
  /\ first_order = <<>>
  /\ recent_order = <<>>

\* The last call was not a Find.
NoFind == [key |-> 0 - 1, found |-> FALSE, value |-> 0]

\* ExtendibleHashTable::ExtendibleHashTable: one empty bucket of depth 0 in a
\* directory of one slot.
HashInit(array_size) ==
  /\ bucket_size_ = array_size
  /\ global_depth_ = 0
  /\ num_buckets_ = 1
  /\ dir_ = <<1>>
  /\ buckets = MapPut(EmptyMap, 1, NewBucket(array_size, 0))
  /\ hash_ref = [k \in HashKeys |-> 0]
  /\ find_result = NoFind

Init == TreeInit /\ ThreadsInit /\ ReplacerInit /\ HashInit(MaxBucketSize)

InsertDone(s, k, v) ==
  /\ ~s.oom
  /\ Commit(s)
  /\ oracle' = IF s.fault = "none" /\ s.ret THEN [oracle EXCEPT ![k] = v] ELSE oracle
  /\ live_count' = IF s.fault = "none" /\ s.ret THEN live_count + 1 ELSE live_count

RemoveDone(s, k) ==
  /\ ~s.oom
  /\ Commit(s)
  /\ oracle' = [oracle EXCEPT ![k] = 0]
  /\ live_count' = IF s.fault = "none" /\ s.ret THEN live_count - 1 ELSE live_count

GetValueDone(s) ==
  /\ Commit(s)
  /\ UNCHANGED <<oracle, live_count>>

\* One caller: every operation runs from its call to its return in one step.
DoInsert(k, v) ==
  /\ fault = "none"
  /\ InsertDone(Insert(TreeState, k, v), k, v)
  /\ UNCHANGED <<pending, replacerVars, hashVars>>

DoRemove(k) ==
  /\ fault = "none"
  /\ RemoveDone(Remove(TreeState, k), k)
  /\ UNCHANGED <<pending, replacerVars, hashVars>>

DoGetValue(k) ==
  /\ fault = "none"
  /\ GetValueDone(GetValue(TreeState, k))
  /\ UNCHANGED <<pending, replacerVars, hashVars>>

TreeNext ==
  \/ \E k \in Keys : \E v \in ValuesOf(k) : DoInsert(k, v)
  \/ \E k \in Keys : DoRemove(k)
  \/ \E k \in Keys : DoGetValue(k)

Spec == Init /\ [][TreeNext]_vars

\* The tree of the scenarios S1..S3: leaf and internal fanout 4.
InitFanout4 ==
  /\ root_page_id_ = INVALID_PAGE_ID
  /\ leaf_max_size_ = 4
  /\ internal_max_size_ = 4
  /\ root_page_latch_ = 0
  /\ pages = [p \in PageIds |-> FreePage]
  /\ next_page_id = 1
  /\ pin_count = [p \in 0..MaxPageId |-> 0]
  /\ wlatch = {}
  /\ rlatch = [p \in PageIds |-> 0]
  /\ page_set = <<>>
  /\ deleted_page_set = {}
  /\ header_record = NoRecord
  /\ fault = "none"
  /\ oracle = [k \in Keys |-> 0]
  /\ live_count = 0
  /\ ThreadsInit /\ ReplacerInit /\ HashInit(MaxBucketSize)

SpecFanout4 == InitFanout4 /\ [][TreeNext]_vars

\* Several callers.  A thread calls an operation, later runs its body, later
\* returns; threads that have a call open at the same time work on different
\* keys.  The body of an operation runs without the thread being descheduled,
\* which is one of the schedules of the threads.
Call(t, op, k) ==
  /\ fault = "none"
  /\ pending[t].phase = "idle"
  /\ \A u \in Threads \ {t} : pending[u].phase = "idle" \/ pending[u].key # k
  /\ pending' = [pending EXCEPT ![t] = [NoCall EXCEPT !.op = op, !.key = k, !.phase = "called"]]
  /\ UNCHANGED <<treeVars, replacerVars, hashVars>>

Returned(s, t) ==
  pending' = [pending EXCEPT ![t].phase = IF s.fault = "none" THEN "done" ELSE "called",
                             ![t].ret = s.ret,
                             ![t].result = s.result]

InsertRun(s, t, k, v) == InsertDone(s, k, v) /\ Returned(s, t)
RemoveRun(s, t, k) == RemoveDone(s, k) /\ Returned(s, t)
GetValueRun(s, t) == GetValueDone(s) /\ Returned(s, t)

RunInsert(t) ==
  /\ fault = "none"
  /\ pending[t].phase = "called" /\ pending[t].op = "Insert"
  /\ \E v \in ValuesOf(pending[t].key) :
       InsertRun(Insert(TreeState, pending[t].key, v), t, pending[t].key, v)
  /\ UNCHANGED <<replacerVars, hashVars>>

RunRemove(t) ==
  /\ fault = "none"
  /\ pending[t].phase = "called" /\ pending[t].op = "Remove"
  /\ RemoveRun(Remove(TreeState, pending[t].key), t, pending[t].key)
  /\ UNCHANGED <<replacerVars, hashVars>>

RunGetValue(t) ==
  /\ fault = "none"
  /\ pending[t].phase = "called" /\ pending[t].op = "GetValue"
  /\ GetValueRun(GetValue(TreeState, pending[t].key), t)
  /\ UNCHANGED <<replacerVars, hashVars>>

Return(t) ==
  /\ fault = "none"
  /\ pending[t].phase = "done"
  /\ pending' = [pending EXCEPT ![t] = NoCall]
  /\ UNCHANGED <<treeVars, replacerVars, hashVars>>

ThreadsNext ==
  \/ \E t \in Threads : \E k \in ThreadKeys : Call(t, "Insert", k)
  \/ \E t \in Threads : \E k \in ThreadKeys : Call(t, "Remove", k)
  \/ \E t \in Threads : \E k \in ThreadKeys : Call(t, "GetValue", k)
  \/ \E t \in Threads : RunInsert(t)
  \/ \E t \in Threads : RunRemove(t)
  \/ \E t \in Threads : RunGetValue(t)
  \/ \E t \in Threads : Return(t)

SpecThreads == Init /\ [][ThreadsNext]_vars

\* A reader whose descent is interleaved with writers.  The reader takes the
\* steps of GetValue and FindLeaf down to the latch on the root page one at
\* a time; a writer runs Insert or Remove from call to return at a moment
\* at which no latch it asks for is held by the reader.
Readers == {1}

ReaderRLock(t, k) ==
  /\ fault = "none"
  /\ pending[t].phase = "idle"
  /\ root_page_latch_ >= 0
  /\ root_page_latch_' = root_page_latch_ + 1
  /\ pending' = [pending EXCEPT ![t] = [NoCall EXCEPT !.op = "GetValue", !.key = k,
                                                      !.phase = "guarded"]]
  /\ UNCHANGED <<root_page_id_, leaf_max_size_, internal_max_size_, pages, next_page_id,
                 pin_count, wlatch, rlatch, page_set, deleted_page_set, header_record,
                 fault, oracle, live_count, replacerVars, hashVars>>

ReaderFetchRoot(t) ==
  /\ fault = "none"
  /\ pending[t].phase = "guarded"
  /\ IF root_page_id_ = INVALID_PAGE_ID
     THEN /\ fault' = "assert"
          /\ UNCHANGED <<pin_count, pending>>
     ELSE /\ pin_count' = [pin_count EXCEPT ![root_page_id_] = @ + 1]
          /\ pending' = [pending EXCEPT ![t].page = root_page_id_, ![t].phase = "fetched"]
          /\ UNCHANGED fault
  /\ UNCHANGED <<root_page_id_, leaf_max_size_, internal_max_size_, root_page_latch_, pages,
                 next_page_id, wlatch, rlatch, page_set, deleted_page_set, header_record,
                 oracle, live_count, replacerVars, hashVars>>

ReaderRUnlock(t) ==
  /\ fault = "none"
  /\ pending[t].phase = "fetched"
  /\ root_page_latch_' = root_page_latch_ - 1
  /\ pending' = [pending EXCEPT ![t].phase = "unguarded"]
  /\ UNCHANGED <<root_page_id_, leaf_max_size_, internal_max_size_, pages, next_page_id,
                 pin_count, wlatch, rlatch, page_set, deleted_page_set, header_record,
                 fault, oracle, live_count, replacerVars, hashVars>>

ReaderRLatch(t) ==
  /\ fault = "none"
  /\ pending[t].phase = "unguarded"
  /\ pending[t].page \notin wlatch
  /\ rlatch' = [rlatch EXCEPT ![pending[t].page] = @ + 1]
  /\ pending' = [pending EXCEPT ![t].phase = "latched"]
  /\ UNCHANGED <<root_page_id_, leaf_max_size_, internal_max_size_, root_page_latch_, pages,
                 next_page_id, pin_count, wlatch, page_set, deleted_page_set, header_record,
                 fault, oracle, live_count, replacerVars, hashVars>>

ReaderFinish(t) ==
  /\ fault = "none"
  /\ pending[t].phase = "latched"
  /\ GetValueRun(GetValueFound(FindLeafLoop(TreeState, pending[t].page, pending[t].key,
                                             "SEARCH"),
                               pending[t].key), t)
  /\ UNCHANGED <<replacerVars, hashVars>>

WriterInsert(k, v) ==
  /\ fault = "none"
  /\ Insert(TreeState, k, v).fault # "hang"
  /\ InsertDone(Insert(TreeState, k, v), k, v)
  /\ UNCHANGED <<pending, replacerVars, hashVars>>

WriterRemove(k) ==
  /\ fault = "none"
  /\ Remove(TreeState, k).fault # "hang"
  /\ RemoveDone(Remove(TreeState, k), k)
  /\ UNCHANGED <<pending, replacerVars, hashVars>>

CrabbingNext ==
  \/ \E t \in Readers : \E k \in ThreadKeys : ReaderRLock(t, k)
  \/ \E t \in Readers : ReaderFetchRoot(t)
  \/ \E t \in Readers : ReaderRUnlock(t)
  \/ \E t \in Readers : ReaderRLatch(t)
  \/ \E t \in Readers : ReaderFinish(t)
  \/ \E t \in Readers : Return(t)
  \/ \E k \in ThreadKeys : \E v \in ValuesOf(k) : WriterInsert(k, v)
  \/ \E k \in ThreadKeys : WriterRemove(k)

SpecCrabbing == Init /\ [][CrabbingNext]_vars

\* The replacer as one record.
\* *frame_id before Evict has written to it.
NoFrame == MaxReplacerSize + 2

ReplacerState ==
  [k |-> k_, cap |-> replacer_size_, hist |-> history_list_, buf |-> buffer_list_,
   cnt |-> history_cnt_, ev |-> evictable_, size |-> curr_size_,
   fault |-> replacer_fault, ret |-> FALSE, out |-> NoFrame, thrown |-> FALSE]

\* The frames that have a recorded access.
Tracked(r) == {f \in DOMAIN r.cnt : r.cnt[f] >= 1}

ReplacerCommit(r) ==
  /\ history_list_' = r.hist
  /\ buffer_list_' = r.buf
  /\ history_cnt_' = r.cnt
  /\ evictable_' = r.ev
  /\ curr_size_' = r.size
  /\ replacer_fault' = r.fault
  /\ UNCHANGED <<k_, replacer_size_>>

\* The reference orders forget the frames that are no longer tracked.
Forget(r) ==
  /\ first_order' = SelectSeq(first_order, LAMBDA x : x \in Tracked(r))
  /\ recent_order' = SelectSeq(recent_order, LAMBDA x : x \in Tracked(r))

\* The access to frame f was counted: f is now the most recent frame, and
\* the latest first access if it was not tracked.
Remember(r, f) ==
  /\ first_order' =
       IF ListHas(first_order, f) /\ f \in Tracked(ReplacerState)
       THEN SelectSeq(first_order, LAMBDA x : x \in Tracked(r))
       ELSE Append(SelectSeq(first_order, LAMBDA x : x \in Tracked(r) /\ x # f), f)
  /\ recent_order' =
       Append(SelectSeq(recent_order, LAMBDA x : x \in Tracked(r) /\ x # f), f)

Counted(r, f) ==
  /\ r.fault = "none"
  /\ MapHas(r.cnt, f)
  /\ r.cnt[f] = (IF MapHas(history_cnt_, f) THEN history_cnt_[f] ELSE 0) + 1

RecordAccessDone(r, f) ==
  /\ ReplacerCommit(r)
  /\ IF Counted(r, f) THEN Remember(r, f) ELSE Forget(r)

DoRecordAccess(f) ==
  /\ replacer_fault = "none"
  /\ MapHas(history_cnt_, f) => history_cnt_[f] < MaxCount
  /\ \E full \in IsFullOutcomes(ReplacerState) :
       RecordAccessDone(RecordAccess(ReplacerState, f, full), f)
  /\ UNCHANGED <<treeVars, pending, hashVars>>

ReplacerDone(r) == ReplacerCommit(r) /\ Forget(r)

DoSetEvictable(f, b) ==
  /\ replacer_fault = "none"
  /\ ReplacerDone(SetEvictable(ReplacerState, f, b))
  /\ UNCHANGED <<treeVars, pending, hashVars>>

DoEvict ==
  /\ replacer_fault = "none"
  /\ ReplacerDone(Evict(ReplacerState))
  /\ UNCHANGED <<treeVars, pending, hashVars>>

DoReplacerRemove(f) ==
  /\ replacer_fault = "none"
  /\ ReplacerDone(ReplacerRemove(ReplacerState, f))
  /\ UNCHANGED <<treeVars, pending, hashVars>>

ReplacerNext ==
  \/ \E f \in FrameIds : DoRecordAccess(f)
  \/ \E f \in FrameIds : \E b \in BOOLEAN : DoSetEvictable(f, b)
  \/ DoEvict
  \/ \E f \in FrameIds : DoReplacerRemove(f)

SpecReplacer == Init /\ [][ReplacerNext]_vars

\* The hash table as one record.
HashState ==
  [gd |-> global_depth_, size |-> bucket_size_, num |-> num_buckets_, dir |-> dir_,
   buckets |-> buckets, ret |-> FALSE, value |-> 0]

HashCommit(h) ==
  /\ global_depth_' = h.gd
  /\ num_buckets_' = h.num
  /\ dir_' = h.dir
  /\ buckets' = h.buckets
  /\ UNCHANGED bucket_size_

DoHashInsert(key, value) ==
  /\ HashCommit(HashInsert(HashState, key, value))
  /\ hash_ref' = [hash_ref EXCEPT ![key] = value]
  /\ find_result' = NoFind
  /\ UNCHANGED <<treeVars, pending, replacerVars>>

DoHashRemove(key) ==
  /\ HashCommit(HashRemove(HashState, key))
  /\ hash_ref' = [hash_ref EXCEPT ![key] = 0]
  /\ find_result' = NoFind
  /\ UNCHANGED <<treeVars, pending, replacerVars>>

FindDone(h, key) ==
  /\ HashCommit(h)
  /\ find_result' = [key |-> key, found |-> h.ret, value |-> h.value]
  /\ UNCHANGED hash_ref

DoHashFind(key) ==
  /\ FindDone(HashFind(HashState, key), key)
  /\ UNCHANGED <<treeVars, pending, replacerVars>>

HashNext ==
  \/ \E key \in HashKeys : \E value \in HashVals : DoHashInsert(key, value)
  \/ \E key \in HashKeys : DoHashRemove(key)
  \/ \E key \in HashKeys : DoHashFind(key)

\* The table is constructed with any of the bucket sizes; the tree, which
\* plays no part here, with one of its fanouts.
InitHash ==
  /\ TreeInit /\ ThreadsInit /\ ReplacerInit
  /\ \A n \in LeafSizes : leaf_max_size_ <= n
  /\ \E array_size \in BucketSizes : HashInit(array_size)

SpecHash == InitHash /\ [][HashNext]_vars

(***************************************************************************)
(* What a caller or an inspection of the pages sees between operations.    *)
(***************************************************************************)
\* The page ids of the subtree under page p, walked through the child
\* pointers for at most d levels.
RECURSIVE SubtreePages(_, _)
SubtreePages(p, d) ==
  IF d = 0 \/ p \notin PageIds \/ pages[p].type = "FREE" THEN {}
  ELSE IF pages[p].type = "LEAF" THEN {p}
  ELSE {p} \cup UNION {SubtreePages(pages[p].vals[i], d - 1) : i \in 1..Len(pages[p].vals)}

\* The pages of the tree: everything under the page root_page_id_ names.
TreePages == SubtreePages(root_page_id_, MaxPageId)

\* The keys stored in the leaves under page p.
SubtreeKeys(p) ==
  UNION {{pages[q].keys[i] : i \in 1..Len(pages[q].keys)} :
           q \in {r \in SubtreePages(p, MaxPageId) : pages[r].type = "LEAF"}}

\* The keys stored in the tree.
TreeKeys == SubtreeKeys(root_page_id_)

\* The leftmost leaf: from the root down the first child pointers.
RECURSIVE LeftmostLeaf(_, _)
LeftmostLeaf(p, d) ==
  IF d = 0 \/ p \notin PageIds \/ pages[p].type = "FREE" THEN INVALID_PAGE_ID
  ELSE IF pages[p].type = "LEAF" THEN p
  ELSE IF pages[p].vals = <<>> THEN INVALID_PAGE_ID
  ELSE LeftmostLeaf(pages[p].vals[1], d - 1)

\* The keys met on the leaf chain from leaf p on, following next_page_id.
RECURSIVE ChainKeys(_, _)
ChainKeys(p, d) ==
  IF d = 0 \/ p \notin PageIds THEN <<>>
  ELSE pages[p].keys \o ChainKeys(pages[p].next, d - 1)

LeafChain == ChainKeys(LeftmostLeaf(root_page_id_, MaxPageId), MaxPageId)

StrictlyAscending(seq) == \A i \in 1..(Len(seq) - 1) : seq[i] < seq[i + 1]

\* No operation is running and none has stopped the process.
Quiescent == fault = "none"

(***************************************************************************)
(* Properties of the B+Tree.                                               *)
(***************************************************************************)
\* C1: round trip.  Between operations, a key whose last Insert returned
\* true and that was not removed since is found by GetValue with exactly
\* the value inserted, and a key that was removed (or never inserted) is
\* not found.
Cex_C1_RoundTrip ==
  Quiescent =>
    \A k \in Keys :
      IF oracle[k] # 0
      THEN GetValue(TreeState, k).result = <<oracle[k]>>
      ELSE GetValue(TreeState, k).result = <<>>

\* C2: ordering.  Between operations, for every internal page P of the tree
\* and every i >= 1, the keys under child i are >= P.key_i and the keys
\* under child i-1 are < P.key_i.
Cex_C2_Ordering ==
  Quiescent =>
    \A p \in TreePages :
      pages[p].type = "INTERNAL" =>
        \A i \in 2..Len(pages[p].vals) :
          /\ \A k \in SubtreeKeys(pages[p].vals[i]) : k >= pages[p].keys[i]
          /\ \A k \in SubtreeKeys(pages[p].vals[i - 1]) : k < pages[p].keys[i]

\* C3: size bounds.  Between operations, every page of the tree other than
\* the root has a size in [min_size, max_size], and no leaf holds L entries.
Cex_C3_SizeBounds ==
  Quiescent =>
    \A p \in TreePages :
      /\ p # root_page_id_ =>
           /\ GetSize(pages[p]) >= GetMinSize(pages[p])
           /\ GetSize(pages[p]) <= GetMaxSize(pages[p])
      /\ IsLeafPage(pages[p]) => GetSize(pages[p]) < leaf_max_size_

\* C4: leaf chain.  Between operations, the keys met from the leftmost leaf
\* along next_page_id are strictly ascending, and there are as many of them
\* as successful inserts minus removals of present keys.
Cex_C4_LeafChain ==
  Quiescent =>
    /\ StrictlyAscending(LeafChain)
    /\ Len(LeafChain) = live_count

\* C5: linearisability per key.  With several threads, a GetValue(k) that
\* was called when no other call on k was open returns the value of the last
\* Insert(k, v) that returned true, or nothing if k was removed since or
\* never inserted, whatever the other threads did to other keys meanwhile.
Cex_C5_Linearisable ==
  \A t \in Threads :
    pending[t].op = "GetValue" /\ pending[t].phase = "done" =>
      pending[t].result =
        IF oracle[pending[t].key] # 0 THEN <<oracle[pending[t].key]>> ELSE <<>>

\* A value no caller has stored under key k.
OtherValue(k) == 10 * k + MaxVal + 1

\* Insert returned false and changed neither the root id nor any page.
DuplicateRefused(s) ==
  s.oom \/ (s.fault = "none" /\ ~s.ret /\ s.root = root_page_id_ /\ s.pages = pages)

\* C6: duplicate insert.  Between operations, Insert(k, v') for a key k that
\* a leaf of the tree holds returns false and leaves the root id and every
\* page as they were.
Cex_C6_Duplicate ==
  Quiescent => \A k \in TreeKeys : DuplicateRefused(Insert(TreeState, k, OtherValue(k)))

\* GetValue completed, found nothing, and gave the root-id guard back.
AbsentLookup(s) == s.fault = "none" /\ ~s.ret /\ s.result = <<>> /\ s.guard = 0

\* Remove completed, changed nothing, and gave the root-id guard back.
AbsentRemove(s) ==
  s.fault = "none" /\ s.root = root_page_id_ /\ s.pages = pages /\ s.guard = 0

\* C7: absent key.  Between operations, for a key no leaf of the tree holds
\* (the tree may be empty), GetValue completes with false and an empty
\* result, Remove completes with the tree unchanged, and neither keeps the
\* root-id guard.
Cex_C7_AbsentKey ==
  Quiescent =>
    \A k \in Keys \ TreeKeys :
      /\ AbsentLookup(GetValue(TreeState, k))
      /\ AbsentRemove(Remove(TreeState, k))

\* C8: pin balance.  Once an operation is over, however it ended, no page
\* is pinned.
Cex_C8_PinBalance == \A p \in 0..MaxPageId : pin_count[p] = 0

(***************************************************************************)
(* Properties of the LRU-K replacer.                                       *)
(***************************************************************************)
ReplacerQuiescent == replacer_fault = "none"

\* The evictable frames with fewer than k accesses, and with k or more.
IsEvictable(f) == MapHas(evictable_, f) /\ evictable_[f]
EvictableBelowK == {f \in Tracked(ReplacerState) : IsEvictable(f) /\ history_cnt_[f] < k_}
EvictableAtK == {f \in Tracked(ReplacerState) : IsEvictable(f) /\ history_cnt_[f] >= k_}

\* The first frame of a reference order that is in the set.
FirstOf(order, set) == SelectSeq(order, LAMBDA x : x \in set)[1]

\* The frame the eviction policy names, NoFrame if it names none.
PolicyVictim ==
  IF EvictableBelowK # {} THEN FirstOf(first_order, EvictableBelowK)
  ELSE IF EvictableAtK # {} THEN FirstOf(recent_order, EvictableAtK)
  ELSE NoFrame

EvictsPolicyVictim(e) ==
  /\ PolicyVictim # NoFrame => e.ret /\ e.out = PolicyVictim
  /\ e.ret => IsEvictable(e.out)

\* C9: eviction policy.  In every state of the replacer, Evict returns the
\* evictable frame with fewer than k accesses whose first access is the
\* earliest, if there is one, else the evictable frame with k or more
\* accesses whose last access is the oldest; it never returns a frame whose
\* flag is false.
Cex_C9_EvictionPolicy == ReplacerQuiescent => EvictsPolicyVictim(Evict(ReplacerState))

EvictsIffNonEmpty(e) ==
  /\ e.ret <=> curr_size_ > 0
  /\ e.ret => e.out # NoFrame /\ Size(e) = curr_size_ - 1

\* C10: in every state of the replacer, Evict returns false exactly if
\* curr_size_ is 0; when Size() > 0 it returns true, writes a victim and
\* Size() goes down by one.
Cex_C10_EvictIffNonEmpty == ReplacerQuiescent => EvictsIffNonEmpty(Evict(ReplacerState))

\* The tracked frames whose evictable flag is true.
EvictableFrames == {f \in Tracked(ReplacerState) : IsEvictable(f)}

\* C11: replacer accounting.  In every state of the replacer, Size() is the
\* number of tracked frames whose evictable flag is true.
Thm_C11_Accounting == Size(ReplacerState) = Cardinality(EvictableFrames)

\* Two frames are tracked, one of them evictable and one not, after a frame
\* was made evictable and an access count reached k.
Wit_C11_Accounting ==
  /\ replacer_fault = "none"
  /\ curr_size_ = 1
  /\ Cardinality(Tracked(ReplacerState)) = 2
  /\ \E f \in Tracked(ReplacerState) : IsEvictable(f) /\ history_cnt_[f] >= k_
  /\ \E f \in Tracked(ReplacerState) : ~IsEvictable(f)

\* C12: replacer size bound.  In every state reached by calls whose frame ids
\* pass the assertion of the replacer, 0 <= curr_size_ <= replacer_size_.
Cex_C12_SizeBound == replacer_fault = "none" => 0 <= curr_size_ /\ curr_size_ <= replacer_size_

\* What the callers of the replacer can tell of a state r: the two queues,
\* the counts of the frames with a recorded access, the frames whose flag is
\* set, and Size().
ReplacerView(r) ==
  [hist |-> r.hist, buf |-> r.buf, size |-> Size(r),
   cnt |-> [f \in Tracked(r) |-> r.cnt[f]],
   ev |-> {f \in DOMAIN r.ev : r.ev[f]},
   fault |-> r.fault]

\* SetEvictable(f, b) before the first RecordAccess(f) makes no difference to
\* that RecordAccess, which puts f at the front of history_list_.
SetEvictableIgnored(f, b, full) ==
  /\ ReplacerView(SetEvictable(ReplacerState, f, b)) = ReplacerView(ReplacerState)
  /\ ReplacerView(RecordAccess(SetEvictable(ReplacerState, f, b), f, full))
       = ReplacerView(RecordAccess(ReplacerState, f, full))
  /\ ~full => Head(RecordAccess(SetEvictable(ReplacerState, f, b), f, full).hist) = f

\* C13: SetEvictable(f, b) on a frame without a recorded access is ignored:
\* the state the callers see is unchanged, and the next RecordAccess(f) does
\* what it would have done without it, placing f at the front of the
\* history queue as a first access.
Cex_C13_SetEvictableIgnored ==
  ReplacerQuiescent =>
    \A f \in 0..(replacer_size_ - 1) \ Tracked(ReplacerState) :
      \A b \in BOOLEAN :
        \A full \in IsFullOutcomes(ReplacerState) : SetEvictableIgnored(f, b, full)

\* Remove(f) was refused with an error and changed nothing.
RemoveRefused(r) == r.thrown /\ ReplacerView(r) = ReplacerView(ReplacerState)

\* Remove(f) took f out: f is in no queue, has no count and no flag, Size()
\* is one less, and the other frames are where and what they were.
RemoveTookOut(r, f) ==
  /\ ~r.thrown /\ r.fault = "none"
  /\ r.hist = ListRemove(history_list_, f)
  /\ r.buf = ListRemove(buffer_list_, f)
  /\ ~ListHas(r.hist, f) /\ ~ListHas(r.buf, f)
  /\ ~MapHas(r.cnt, f)
  /\ \A g \in Tracked(ReplacerState) \ {f} : MapHas(r.cnt, g) /\ r.cnt[g] = history_cnt_[g]
  /\ ReplacerView(r).ev = EvictableFrames \ {f}
  /\ Size(r) = curr_size_ - 1

\* Remove(f) did nothing.
RemoveNoOp(r) == ~r.thrown /\ r.fault = "none" /\ ReplacerView(r) = ReplacerView(ReplacerState)

RemoveAsSpecified(f) ==
  IF f \in Tracked(ReplacerState)
  THEN IF IsEvictable(f)
       THEN RemoveTookOut(ReplacerRemove(ReplacerState, f), f)
       ELSE RemoveRefused(ReplacerRemove(ReplacerState, f))
  ELSE RemoveNoOp(ReplacerRemove(ReplacerState, f))

\* C14: Remove(f), for the frame ids the assertion of the replacer lets
\* through: on a tracked frame that is not evictable it fails with an error
\* and leaves queues, counts, flags and curr_size_ unchanged; on a tracked
\* evictable frame it takes f out of its queue, forgets its count and
\* decrements curr_size_; on a frame never recorded it does nothing.
Thm_C14_Remove ==
  ReplacerQuiescent => \A f \in 0..replacer_size_ : RemoveAsSpecified(f)

\* A state with the three cases: a tracked frame that is not evictable, whose
\* Remove is refused; a tracked evictable frame of the cache queue, whose
\* Remove takes it out; and a frame never recorded.
Wit_C14_Remove ==
  /\ replacer_fault = "none"
  /\ \E f \in Tracked(ReplacerState) :
       ~IsEvictable(f) /\ ReplacerRemove(ReplacerState, f).thrown
  /\ \E g \in Tracked(ReplacerState) :
       /\ IsEvictable(g) /\ ListHas(buffer_list_, g)
       /\ ~ListHas(ReplacerRemove(ReplacerState, g).buf, g)
       /\ Size(ReplacerRemove(ReplacerState, g)) = curr_size_ - 1
  /\ \E h \in 0..replacer_size_ : h \notin Tracked(ReplacerState)

\* Frame ids outside 0 <= f < replacer_size_: a negative one, replacer_size_
\* itself, and the one after it.
InvalidFrameIds == {0 - 1, replacer_size_, replacer_size_ + 1}

\* RecordAccess(f) ended in the assertion failure and recorded nothing.
RecordAccessAsserts(r) ==
  /\ r.fault = "assert"
  /\ r.hist = history_list_ /\ r.buf = buffer_list_
  /\ r.cnt = history_cnt_ /\ r.ev = evictable_ /\ r.size = curr_size_

\* C15: RecordAccess(f) with f outside 0 <= f < replacer_size_ (f equal to
\* replacer_size_ and negative f included) is a fatal assertion failure and
\* records nothing.
Cex_C15_FrameIdAssert ==
  ReplacerQuiescent =>
    \A f \in InvalidFrameIds :
      \A full \in IsFullOutcomes(ReplacerState) :
        RecordAccessAsserts(RecordAccess(ReplacerState, f, full))

(***************************************************************************)
(* Properties of the extendible hash table.                                *)
(***************************************************************************)
\* The ids of the buckets whose list holds a pair with the key.
BucketsHolding(key) ==
  {id \in DOMAIN buckets : \E i \in 1..Len(buckets[id].list) : buckets[id].list[i][1] = key}

\* Find(key) gives the value the reference map has for the key, or nothing.
FindAgrees(h, key) ==
  /\ h.ret <=> hash_ref[key] # 0
  /\ h.ret => h.value = hash_ref[key]

\* C16: hash table correctness.  In every state, Find(k) returns the value
\* of the last Insert(k, .) that no Remove(k) followed, or nothing; and every
\* live key is held by the bucket of slot IndexOf(k) and by no other bucket.
\* The result a Find call returned agrees with the same map.
Thm_C16_HashCorrect ==
  /\ \A k \in HashKeys : FindAgrees(HashFind(HashState, k), k)
  /\ \A k \in HashKeys :
       BucketsHolding(k) = IF hash_ref[k] # 0 THEN {DirAt(HashState, IndexOf(HashState, k))}
                           ELSE {}
  /\ find_result # NoFind =>
       /\ find_result.found <=> hash_ref[find_result.key] # 0
       /\ find_result.found => find_result.value = hash_ref[find_result.key]

\* After splits up to depth 2, with a key removed and a value replaced, a
\* Find call has returned a replaced value.
Wit_C16_HashCorrect ==
  /\ global_depth_ >= 2
  /\ \E k \in HashKeys : hash_ref[k] = 0 /\ k < MaxHashKey
  /\ Cardinality({k \in HashKeys : hash_ref[k] # 0}) >= 3
  /\ find_result.found /\ find_result.value = MaxHashVal

\* No bucket holds more pairs than bucket_size_.
WithinCapacity == \A id \in DOMAIN buckets : Len(buckets[id].list) <= bucket_size_

\* The bucket of the slot of the key is full and as deep as the directory.
FullAtGlobalDepth(key) ==
  /\ BucketIsFull(buckets[DirAt(HashState, IndexOf(HashState, key))])
  /\ GetLocalDepthInternal(HashState, IndexOf(HashState, key)) = global_depth_

\* The directory of h is the directory of the state doubled at least once.
Doubled(h) == h.gd > global_depth_ /\ Len(h.dir) >= 2 * Len(dir_)

\* C17: bucket capacity.  In every state no bucket holds more than
\* bucket_size_ pairs, and every Insert whose target bucket is full with
\* local depth equal to the global depth doubles the directory.
Cex_C17_CapacityDoubling ==
  /\ WithinCapacity
  /\ \A k \in HashKeys : \A v \in HashVals :
       FullAtGlobalDepth(k) => Doubled(HashInsert(HashState, k, v))

\* C17 as amended: no bucket holds more than bucket_size_ pairs; an Insert
\* of a key the table does not hold, whose target bucket is full with local
\* depth equal to the global depth, doubles the directory; an Insert of a
\* key the bucket holds splits nothing and leaves the directory as it is.
Thm_C17_CapacityDoubling ==
  /\ WithinCapacity
  /\ \A k \in HashKeys : \A v \in HashVals :
       /\ FullAtGlobalDepth(k) /\ BucketsHolding(k) = {} =>
            Doubled(HashInsert(HashState, k, v))
       /\ BucketsHolding(k) # {} =>
            /\ HashInsert(HashState, k, v).dir = dir_
            /\ HashInsert(HashState, k, v).gd = global_depth_

\* The directory was doubled before, and a key that is not in the table has
\* a full target bucket as deep as the directory, which Insert doubles.
Wit_C17_CapacityDoubling ==
  /\ global_depth_ >= 1
  /\ \E k \in HashKeys :
       /\ FullAtGlobalDepth(k) /\ BucketsHolding(k) = {}
       /\ Doubled(HashInsert(HashState, k, MaxHashVal))
  /\ \E id \in DOMAIN buckets : Len(buckets[id].list) = bucket_size_

\* C18: directory well-formedness.  In every state the directory has
\* 2^global_depth_ slots and the bucket of every slot has a local depth of
\* at most global_depth_.
Thm_C18_DirectoryWellFormed ==
  /\ Len(dir_) = Pow2(global_depth_)
  /\ \A i \in 0..(Len(dir_) - 1) :
       /\ DirAt(HashState, i) \in DOMAIN buckets
       /\ GetLocalDepthInternal(HashState, i) <= global_depth_

\* The directory was doubled twice, and holds both a bucket as deep as the
\* directory and a bucket two slots share.
Wit_C18_DirectoryWellFormed ==
  /\ global_depth_ = 2
  /\ \E i \in 0..(Len(dir_) - 1) : GetLocalDepthInternal(HashState, i) = global_depth_
  /\ \E i \in 0..(Len(dir_) - 1) : GetLocalDepthInternal(HashState, i) < global_depth_

\* The buckets the directory refers to.
DirBuckets(h) == {h.dir[i] : i \in 1..Len(h.dir)}

\* One turn of the split loop for the key adds one to the bucket count and
\* to the buckets of the directory: both fresh buckets have a slot.
SplitAddsOne(h) ==
  /\ GetNumBucketsInternal(h) = num_buckets_ + 1
  /\ Cardinality(DirBuckets(h)) = Cardinality(DirBuckets(HashState)) + 1
  /\ Cardinality(DirBuckets(h) \ DirBuckets(HashState)) = 2

\* C19: bucket count.  In every state GetNumBuckets() is the number of
\* distinct buckets the directory refers to; it is 1 at construction (a
\* directory of one slot) and a split of a full bucket adds exactly one, both
\* fresh buckets being referred to by a slot.
Thm_C19_NumBuckets ==
  /\ GetNumBucketsInternal(HashState) = Cardinality(DirBuckets(HashState))
  /\ Len(dir_) = 1 => GetNumBucketsInternal(HashState) = 1
  /\ \A k \in HashKeys :
       BucketIsFull(buckets[DirAt(HashState, IndexOf(HashState, k))]) =>
         SplitAddsOne(SplitBucket(HashState, IndexOf(HashState, k)))

\* After several splits and a Remove that emptied a bucket, a full bucket
\* that two slots share is about to be split.
Wit_C19_NumBuckets ==
  /\ num_buckets_ >= 3
  /\ \E id \in DirBuckets(HashState) : buckets[id].list = <<>>
  /\ \E k \in HashKeys :
       /\ BucketIsFull(buckets[DirAt(HashState, IndexOf(HashState, k))])
       /\ GetLocalDepthInternal(HashState, IndexOf(HashState, k)) < global_depth_

\* ExtendibleHashTable::ExtendibleHashTable, as a table record.
HashNew(array_size) ==
  [gd |-> 0, size |-> array_size, num |-> 1, dir |-> <<1>>,
   buckets |-> MapPut(EmptyMap, 1, NewBucket(array_size, 0)), ret |-> FALSE, value |-> 0]

\* Scenario S4: keys whose hashes are 0, 1, 2, 3 go, in that order, into a
\* new table with buckets of two pairs.  The tables after the first n of them.
S4Keys == <<0, 1, 2, 3>>

RECURSIVE S4Tables(_)
S4Tables(n) ==
  IF n = 0 THEN {HashNew(2)}
  ELSE {HashInsert(h, S4Keys[n], v) : h \in S4Tables(n - 1), v \in HashVals}

AfterS4(n) == HashState \in S4Tables(n)

\* C20: scenario S4.  After 0 and 1 there is one bucket; after 2 a split has
\* left global_depth_ = 1; after 3 the directory has doubled and
\* global_depth_ = 2.
Cex_C20_ScenarioS4 ==
  /\ AfterS4(2) => num_buckets_ = 1 /\ global_depth_ = 0
  /\ AfterS4(3) => num_buckets_ = 2 /\ global_depth_ = 1
  /\ AfterS4(4) => global_depth_ = 2 /\ Len(dir_) = 4

\* C20 as amended: after 0 and 1 there is one bucket; after 2 a split has
\* left global_depth_ = 1 and two buckets; 3 finds room in the bucket of
\* slot 1, so that after 3 global_depth_ is still 1 and the two buckets hold
\* the keys 0, 2 and 1, 3.
Thm_C20_ScenarioS4 ==
  /\ AfterS4(2) => num_buckets_ = 1 /\ global_depth_ = 0
  /\ AfterS4(3) => num_buckets_ = 2 /\ global_depth_ = 1
  /\ AfterS4(4) =>
       /\ global_depth_ = 1 /\ Len(dir_) = 2 /\ num_buckets_ = 2
       /\ BucketsHolding(0) = {DirAt(HashState, 0)} /\ BucketsHolding(2) = {DirAt(HashState, 0)}
       /\ BucketsHolding(1) = {DirAt(HashState, 1)} /\ BucketsHolding(3) = {DirAt(HashState, 1)}

\* The four keys of the scenario are in, in the order of the scenario.
Wit_C20_ScenarioS4 == AfterS4(4) /\ \A k \in 0..3 : hash_ref[k] # 0

(***************************************************************************)
(* Further properties of the B+Tree.                                       *)
(***************************************************************************)
\* BPlusTree::BPlusTree on an empty buffer pool, as a record.
TreeNew(leaf_max_size, internal_max_size) ==
  [root |-> INVALID_PAGE_ID, lmax |-> leaf_max_size, imax |-> internal_max_size,
   guard |-> 0, pages |-> [p \in PageIds |-> FreePage], next |-> 1,
   pins |-> [p \in 0..MaxPageId |-> 0], wl |-> {}, rl |-> [p \in PageIds |-> 0],
   pset |-> <<>>, del |-> {}, hdr |-> NoRecord, fault |-> "none",
   oom |-> FALSE, cur |-> INVALID_PAGE_ID, sib |-> INVALID_PAGE_ID,
   node |-> FreePage, flag |-> FALSE, ret |-> FALSE, result |-> <<>>,
   unguarded |-> FALSE]

\* The operation has returned: what it computed on the way is gone.
Settled(s) ==
  [s EXCEPT !.oom = FALSE, !.cur = INVALID_PAGE_ID, !.sib = INVALID_PAGE_ID,
            !.node = FreePage, !.flag = FALSE, !.ret = FALSE, !.result = <<>>,
            !.unguarded = FALSE]

\* The tree after the first n calls of a list of calls, each <<op, key>>.
RECURSIVE TreeAfter(_, _, _)
TreeAfter(new, calls, n) ==
  IF n = 0 THEN new
  ELSE IF calls[n][1] = "Insert"
  THEN Settled(Insert(TreeAfter(new, calls, n - 1), calls[n][2],
                      CHOOSE v \in ValuesOf(calls[n][2]) : TRUE))
  ELSE Settled(Remove(TreeAfter(new, calls, n - 1), calls[n][2]))

\* Scenario S1 followed by scenario S2.
S1S2Calls ==
  <<<<"Insert", 1>>, <<"Insert", 2>>, <<"Insert", 3>>, <<"Insert", 4>>, <<"Insert", 5>>,
    <<"Remove", 4>>, <<"Remove", 5>>>>

S1Tree == TreeAfter(TreeNew(4, 4), S1S2Calls, 5)
S2Tree == TreeAfter(TreeNew(4, 4), S1S2Calls, 7)

\* The root is an internal page over two leaves, with the separator between.
RootOverTwoLeaves(left, separator, right) ==
  /\ root_page_id_ \in PageIds
  /\ pages[root_page_id_].type = "INTERNAL"
  /\ GetSize(pages[root_page_id_]) = 2
  /\ KeyAt(pages[root_page_id_], 1) = separator
  /\ pages[ValueAt(pages[root_page_id_], 0)].type = "LEAF"
  /\ pages[ValueAt(pages[root_page_id_], 0)].keys = left
  /\ pages[ValueAt(pages[root_page_id_], 1)].type = "LEAF"
  /\ pages[ValueAt(pages[root_page_id_], 1)].keys = right

\* The root is a leaf with these keys.
RootIsLeaf(keys) ==
  /\ root_page_id_ \in PageIds
  /\ pages[root_page_id_].type = "LEAF"
  /\ pages[root_page_id_].keys = keys

\* C21: scenarios S1 and S2.  With L = 4 and I = 4, after the inserts of
\* 1, 2, 3, 4, 5 the root is an internal page over the leaves [1,2] and
\* [3,4,5] with separator 3; after Remove(4) and Remove(5) the tree is the
\* single leaf [1,2,3], and root_page_id_ names it.
Cex_C21_ScenarioS1S2 ==
  /\ TreeState = S1Tree => RootOverTwoLeaves(<<1, 2>>, 3, <<3, 4, 5>>)
  /\ TreeState = S2Tree => RootIsLeaf(<<1, 2, 3>>)

\* The leaf Remove(key) reaches, NullPage if the descent does not complete.
RemoveLeaf(key) ==
  IF IsEmpty(TreeState) THEN NullPage
  ELSE IF FindLeaf(AddIntoPageSet(WLockRoot(TreeState), NullPage), key, "DELETE").fault # "none"
  THEN NullPage
  ELSE FindLeaf(AddIntoPageSet(WLockRoot(TreeState), NullPage), key, "DELETE").cur

\* Remove(key) can take the key from the leaf, which is not the root page,
\* without leaving it with fewer than min_size entries.
RemoveWithoutUnderflow(key, leaf) ==
  /\ leaf \in PageIds
  /\ leaf # root_page_id_
  /\ HasKey(pages[leaf], key)
  /\ GetSize(pages[leaf]) - 1 >= GetMinSize(pages[leaf])

\* Remove returned having changed the leaf only, by taking the key out.
RemoveWasLocal(s, key, leaf) ==
  /\ s.fault = "none"
  /\ s.root = root_page_id_
  /\ s.hdr = header_record
  /\ s.pages = [pages EXCEPT ![leaf] = RemoveAndDeleteRecord(@, key)]
  /\ s.wl = {} /\ s.guard = 0 /\ s.pset = <<>>

\* C22: Remove without underflow is local.  Between operations, when
\* Remove(k) takes k from a leaf that is not the root and leaves it with at
\* least min_size entries, it returns with its latches released and with
\* no other page changed or deleted and root_page_id_ as it was.
Cex_C22_RemoveLocal ==
  Quiescent =>
    \A k \in Keys :
      RemoveWithoutUnderflow(k, RemoveLeaf(k)) =>
        RemoveWasLocal(Remove(TreeState, k), k, RemoveLeaf(k))

\* The pages in use whose parent_id is INVALID_PAGE_ID.
ParentlessPages == {p \in PageIds : pages[p].type # "FREE" /\ IsRootPage(pages[p])}

\* C23: root split reparenting.  Between operations, in a tree that is not
\* empty, exactly one page has parent_id = INVALID_PAGE_ID, the page
\* root_page_id_ names, and the children of an internal root have the
\* root's page id as parent_id.
Cex_C23_RootReparenting ==
  Quiescent /\ root_page_id_ # INVALID_PAGE_ID =>
    /\ ParentlessPages = {root_page_id_}
    /\ pages[root_page_id_].type = "INTERNAL" =>
         \A i \in 1..GetSize(pages[root_page_id_]) :
           pages[pages[root_page_id_].vals[i]].parent = root_page_id_

\* The index of page p in its parent, NotFound if the parent does not list it.
IndexInParent(p) ==
  IF pages[p].parent \in PageIds /\ pages[pages[p].parent].type = "INTERNAL"
  THEN ValueIndex(pages[pages[p].parent], p)
  ELSE NotFound

\* The left sibling of page p, which has a positive index in its parent.
LeftSibling(p) == ValueAt(pages[pages[p].parent], IndexInParent(p) - 1)

\* Remove(key) takes the key from the leaf and then borrows from the leaf's
\* left sibling.
BorrowsFromLeft(key, leaf) ==
  /\ leaf \in PageIds
  /\ HasKey(pages[leaf], key)
  /\ IndexInParent(leaf) > 0
  /\ LeftSibling(leaf) \in PageIds
  /\ pages[LeftSibling(leaf)].type = "LEAF"
  /\ GetSize(pages[LeftSibling(leaf)]) > GetMinSize(pages[LeftSibling(leaf)])

\* The sibling's last pair is at the front of the leaf, and the parent's
\* separator for the leaf is the leaf's new first key.
BorrowedFromLeft(s, key, leaf, sibling, parent, index) ==
  /\ s.fault = "none"
  /\ s.pages[sibling].keys = SubSeq(pages[sibling].keys, 1, Len(pages[sibling].keys) - 1)
  /\ s.pages[leaf].keys =
       <<pages[sibling].keys[Len(pages[sibling].keys)]>>
         \o RemoveAndDeleteRecord(pages[leaf], key).keys
  /\ KeyAt(s.pages[parent], index) = KeyAt(s.pages[leaf], 0)

\* C24: leaf redistribution from the left sibling.  Between operations, when
\* Remove takes a key from a leaf at parent index > 0 and borrows from the
\* left sibling, the sibling's last pair becomes the leaf's first and the
\* parent's key at the leaf's index becomes the leaf's new first key.
Cex_C24_BorrowLeftSeparator ==
  Quiescent =>
    \A k \in Keys :
      BorrowsFromLeft(k, RemoveLeaf(k)) =>
        BorrowedFromLeft(Remove(TreeState, k), k, RemoveLeaf(k),
                         LeftSibling(RemoveLeaf(k)), pages[RemoveLeaf(k)].parent,
                         IndexInParent(RemoveLeaf(k)))

\* C25: read-path crabbing order at the root.  A reader that has read
\* root_page_id_ and has not yet latched the page it read holds the root-id
\* guard in read mode; it gives the guard back only with the read latch on
\* that page in its hands.
Cex_C25_ReadCrabbingOrder ==
  \A t \in Readers :
    pending[t].phase \in {"fetched", "unguarded"} =>
      root_page_latch_ > 0 \/ rlatch[pending[t].page] > 0

\* A reader holds the read latch on a page that is not the root any more.
StaleRootLatched ==
  \E t \in Readers : pending[t].phase = "latched" /\ pending[t].page # root_page_id_

\* C26: root_page_id_ is protected by the root-id guard.  Between
\* operations, an Insert or a Remove that is called writes root_page_id_
\* and the header record only while it holds the root-id guard in write
\* mode: it has not given the guard back by an early release before the
\* write.
Cex_C26_RootWriteGuarded ==
  Quiescent =>
    /\ \A k \in Keys : \A v \in ValuesOf(k) : ~Insert(TreeState, k, v).unguarded
    /\ \A k \in Keys : ~Remove(TreeState, k).unguarded

\* C27: latch release.  Between operations, an Insert or a Remove that is
\* called ends, whichever path it takes (duplicate key, absent key, split,
\* redistribution, coalescing with either sibling), with no page
\* write-latched, the root-id guard free and the page set of the
\* transaction empty.
Released(s) == s.wl = {} /\ s.guard = 0 /\ s.pset = <<>>

\* The operation came to its return statement or to its release of latches.
Over(s) == s.oom \/ Released(s)

Cex_C27_LatchRelease ==
  Quiescent =>
    /\ \A k \in Keys : \A v \in ValuesOf(k) : Over(Insert(TreeState, k, v))
    /\ \A k \in Keys : Over(Remove(TreeState, k))

\* C28: the header record tracks the root.  Between operations, once a
\* first root has been created, the header page's record for the index is
\* root_page_id_, through root splits, root collapses and the tree becoming
\* empty; before that there is no record.
Cex_C28_HeaderTracksRoot ==
  Quiescent =>
    IF next_page_id = 1
    THEN header_record = NoRecord
    ELSE header_record = root_page_id_

(***************************************************************************)
(* Further properties of the LRU-K replacer and of the hash table.         *)
(***************************************************************************)
\* How often frame f is in the list.
Occurrences(list, f) == Cardinality({i \in 1..Len(list) : list[i] = f})

\* C29: replacer queue membership.  In every state in which the replacer
\* is running, a frame with a recorded access is once in the history queue
\* and not in the cache queue if it has fewer than k accesses, and once in
\* the cache queue and not in the history queue otherwise, also when
\* SetEvictable came before its first RecordAccess.
Cex_C29_QueueMembership ==
  ReplacerQuiescent =>
    \A f \in Tracked(ReplacerState) :
      IF history_cnt_[f] < k_
      THEN Occurrences(history_list_, f) = 1 /\ Occurrences(buffer_list_, f) = 0
      ELSE Occurrences(history_list_, f) = 0 /\ Occurrences(buffer_list_, f) = 1

\* The slots i and j agree on their low depth bits.
SlotsAgree(i, j, depth) == LowBits(i, depth) = LowBits(j, depth)

\* C30: directory sharing.  In every state of the hash table, two slots that
\* point to the same bucket agree on their low local_depth bits, and the
\* hash of every key stored in a bucket agrees with the slots that point to
\* the bucket on the same bits.
Thm_C30_DirectorySharing ==
  \A i \in 0..(Len(dir_) - 1) :
    /\ \A j \in 0..(Len(dir_) - 1) :
         DirAt(HashState, i) = DirAt(HashState, j) =>
           SlotsAgree(i, j, GetLocalDepthInternal(HashState, i))
    /\ \A n \in 1..Len(buckets[DirAt(HashState, i)].list) :
         SlotsAgree(Hash(buckets[DirAt(HashState, i)].list[n][1]), i,
                    GetLocalDepthInternal(HashState, i))

\* After two doublings two slots share a bucket that holds a key and is
\* less deep than the directory, beside a bucket that is as deep.
Wit_C30_DirectorySharing ==
  /\ global_depth_ >= 2
  /\ \E i \in 0..(Len(dir_) - 1) : \E j \in 0..(Len(dir_) - 1) :
       /\ i # j
       /\ DirAt(HashState, i) = DirAt(HashState, j)
       /\ buckets[DirAt(HashState, i)].list # <<>>
       /\ GetLocalDepthInternal(HashState, i) >= 1
  /\ \E i \in 0..(Len(dir_) - 1) :
       /\ GetLocalDepthInternal(HashState, i) = global_depth_
       /\ buckets[DirAt(HashState, i)].list # <<>>

\* The bucket the key maps to: dir_[IndexOf(key)].
TargetBucket(h, key) == h.buckets[DirAt(h, IndexOf(h, key))]

\* The keys of the bucket whose hash has, at the bucket's depth, the bit the
\* key's hash has there: the keys a split leaves with the key.
StayWith(b, key) ==
  {n \in 1..Len(b.list) :
     BitSet(Hash(b.list[n][1]), GetDepth(b)) = BitSet(Hash(key), GetDepth(b))}

\* Every turn the split loop takes for the key, from table h on, leaves the
\* key's bucket with fewer keys than it had.
RECURSIVE EachTurnReduces(_, _)
EachTurnReduces(h, key) ==
  IF ~BucketIsFull(TargetBucket(h, key)) THEN TRUE
  ELSE /\ Len(TargetBucket(SplitBucket(h, IndexOf(h, key)), key).list)
            < Len(TargetBucket(h, key).list)
       /\ EachTurnReduces(SplitBucket(h, IndexOf(h, key)), key)

\* Every turn the split loop takes for the key, from table h on, leaves the
\* key's bucket one deeper and with the keys that agree with the key in the
\* bit of the split: never more than it had, and fewer exactly if one of
\* them differs from the key in that bit.
RECURSIVE EachTurnDeepens(_, _)
EachTurnDeepens(h, key) ==
  IF ~BucketIsFull(TargetBucket(h, key)) THEN TRUE
  ELSE /\ GetDepth(TargetBucket(SplitBucket(h, IndexOf(h, key)), key))
            = GetDepth(TargetBucket(h, key)) + 1
       /\ Len(TargetBucket(SplitBucket(h, IndexOf(h, key)), key).list)
            = Cardinality(StayWith(TargetBucket(h, key), key))
       /\ EachTurnDeepens(SplitBucket(h, IndexOf(h, key)), key)

\* The number of turns the split loop takes for the key from table h on.
RECURSIVE Turns(_, _)
Turns(h, key) ==
  IF ~BucketIsFull(TargetBucket(h, key)) THEN 0
  ELSE 1 + Turns(SplitBucket(h, IndexOf(h, key)), key)

\* The table after n turns of the split loop for the key.
RECURSIVE AfterTurns(_, _, _)
AfterTurns(h, key, n) ==
  IF n = 0 THEN h ELSE AfterTurns(SplitBucket(h, IndexOf(h, key)), key, n - 1)

\* The loop stops at the first table in which the key's bucket has room.
EndsWhenNotFull(h, key) ==
  /\ SplitLoop(h, key) = AfterTurns(h, key, Turns(h, key))
  /\ ~BucketIsFull(TargetBucket(SplitLoop(h, key), key))
  /\ \A n \in 0..(Turns(h, key) - 1) : BucketIsFull(TargetBucket(AfterTurns(h, key, n), key))

\* The keys Insert runs the split loop for: those the table does not hold.
NewKeys == {k \in HashKeys : ~HashFind(HashState, k).ret}

\* C31: split-loop progress.  In every state, for a key Insert would run
\* the split loop for, each turn of the loop strictly reduces the number of
\* keys in the bucket the key maps to, and the loop ends as soon as that
\* bucket is not full.
Cex_C31_SplitProgress ==
  \A k \in NewKeys :
    EachTurnReduces(HashState, k) /\ EndsWhenNotFull(HashState, k)

\* C31 as amended: each turn of the loop makes the bucket the key maps to
\* one deeper and leaves it the keys that agree with the new key in the bit
\* of the split, never more than before and fewer only if one of them
\* differs there; the loop ends as soon as that bucket is not full.
Thm_C31_SplitProgress ==
  \A k \in NewKeys :
    EachTurnDeepens(HashState, k) /\ EndsWhenNotFull(HashState, k)

\* Some key makes the loop take a turn that leaves its bucket as full as it
\* was, and a second turn that makes room.
Wit_C31_SplitProgress ==
  \E k \in NewKeys :
    /\ Turns(HashState, k) >= 2
    /\ Len(TargetBucket(AfterTurns(HashState, k, 1), k).list)
         = Len(TargetBucket(HashState, k).list)
    /\ ~BucketIsFull(TargetBucket(SplitLoop(HashState, k), k))

(***************************************************************************)
(* The latch protocol with several writers.  A Remove is two steps: the    *)
(* descent to the leaf, after which the thread holds the write latch on    *)
(* the leaf and on the pages of its page set, and the rest of the          *)
(* operation from CoalesceOrRedistribute on.  A step that asks for a latch *)
(* another thread holds is not enabled.  Insert and GetValue run from call *)
(* to return in one step.  The tree the threads start on is the one seven  *)
(* inserts build: the leaves [1,2,3], [4,5] and [6,7] under one root.      *)
(***************************************************************************)
\* The keys the threads work on: one of the leftmost leaf and one of its
\* right neighbour.
LatchKeys == {3, 4}

LoadCalls ==
  <<<<"Insert", 1>>, <<"Insert", 2>>, <<"Insert", 6>>, <<"Insert", 7>>, <<"Insert", 4>>,
    <<"Insert", 5>>, <<"Insert", 3>>>>

LoadedTree == TreeAfter(TreeNew(4, 3), LoadCalls, Len(LoadCalls))

InitLoaded ==
  /\ root_page_id_ = LoadedTree.root
  /\ leaf_max_size_ = LoadedTree.lmax
  /\ internal_max_size_ = LoadedTree.imax
  /\ root_page_latch_ = LoadedTree.guard
  /\ pages = LoadedTree.pages
  /\ next_page_id = LoadedTree.next
  /\ pin_count = LoadedTree.pins
  /\ wlatch = LoadedTree.wl
  /\ rlatch = LoadedTree.rl
  /\ page_set = LoadedTree.pset
  /\ deleted_page_set = LoadedTree.del
  /\ header_record = LoadedTree.hdr
  /\ fault = LoadedTree.fault
  /\ oracle = [k \in Keys |-> CHOOSE v \in ValuesOf(k) : TRUE]
  /\ live_count = Len(LoadCalls)
  /\ ThreadsInit /\ ReplacerInit /\ HashInit(MaxBucketSize)

\* The operation would wait for a latch.
Blocked(s) == s.fault = "hang"

\* BPlusTree::Remove down to the return of FindLeaf.
Descent(key) == FindLeaf(AddIntoPageSet(WLockRoot(TreeState), NullPage), key, "DELETE")

\* Remove(key) gets as far as CoalesceOrRedistribute.
RemoveParks(key) ==
  /\ ~IsEmpty(TreeState)
  /\ Descent(key).fault = "none"
  /\ HasKey(Descent(key).pages[Descent(key).cur], key)

\* The descent of thread t is over: the key is out of the leaf, the thread
\* keeps its page set and the latch on the leaf.
Parked(s, t, key) ==
  /\ Commit([s EXCEPT !.pset = <<>>, !.pages[s.cur] = RemoveAndDeleteRecord(@, key)])
  /\ pending' = [pending EXCEPT ![t].phase = "leaf", ![t].page = s.cur, ![t].pset = s.pset]
  /\ UNCHANGED <<oracle, live_count>>

\* What thread t, which holds a leaf, sees.
ParkedState(t) == [TreeState EXCEPT !.pset = pending[t].pset]

\* BPlusTree::Remove of thread t from CoalesceOrRedistribute on.
Rebalance(t) ==
  RemoveFinish(CoalesceOrRedistribute(ParkedState(t), pending[t].page), pending[t].page)

Rebalanced(s, t) ==
  /\ RemoveDone(s, pending[t].key)
  /\ pending' = [pending EXCEPT ![t].phase = IF s.fault = "none" THEN "done" ELSE "leaf",
                                ![t].ret = s.ret,
                                ![t].page = INVALID_PAGE_ID,
                                ![t].pset = <<>>]

RunRemoveDescend(t) ==
  /\ fault = "none"
  /\ pending[t].phase = "called" /\ pending[t].op = "Remove"
  /\ RemoveParks(pending[t].key)
  /\ \E s \in {Descent(pending[t].key)} : Parked(s, t, pending[t].key)
  /\ UNCHANGED <<replacerVars, hashVars>>

RunRemoveRebalance(t) ==
  /\ fault = "none"
  /\ pending[t].phase = "leaf"
  /\ \E s \in {Rebalance(t)} : ~Blocked(s) /\ Rebalanced(s, t)
  /\ UNCHANGED <<replacerVars, hashVars>>

RunRemoveWhole(t) ==
  /\ fault = "none"
  /\ pending[t].phase = "called" /\ pending[t].op = "Remove"
  /\ ~RemoveParks(pending[t].key)
  /\ \E s \in {Remove(TreeState, pending[t].key)} :
       ~Blocked(s) /\ RemoveRun(s, t, pending[t].key)
  /\ UNCHANGED <<replacerVars, hashVars>>

RunInsertUnblocked(t) ==
  /\ fault = "none"
  /\ pending[t].phase = "called" /\ pending[t].op = "Insert"
  /\ \E v \in ValuesOf(pending[t].key) :
       \E s \in {Insert(TreeState, pending[t].key, v)} :
         ~Blocked(s) /\ InsertRun(s, t, pending[t].key, v)
  /\ UNCHANGED <<replacerVars, hashVars>>

RunGetValueUnblocked(t) ==
  /\ fault = "none"
  /\ pending[t].phase = "called" /\ pending[t].op = "GetValue"
  /\ \E s \in {GetValue(TreeState, pending[t].key)} : ~Blocked(s) /\ GetValueRun(s, t)
  /\ UNCHANGED <<replacerVars, hashVars>>

\* The steps a thread with an open call takes.
ThreadStep(t) ==
  \/ RunInsertUnblocked(t)
  \/ RunGetValueUnblocked(t)
  \/ RunRemoveWhole(t)
  \/ RunRemoveDescend(t)
  \/ RunRemoveRebalance(t)
  \/ Return(t)

LatchingNext ==
  \/ \E t \in Threads : \E k \in LatchKeys : Call(t, "Insert", k)
  \/ \E t \in Threads : \E k \in LatchKeys : Call(t, "Remove", k)
  \/ \E t \in Threads : \E k \in LatchKeys : Call(t, "GetValue", k)
  \/ \E t \in Threads : RunInsertUnblocked(t)
  \/ \E t \in Threads : RunGetValueUnblocked(t)
  \/ \E t \in Threads : RunRemoveWhole(t)
  \/ \E t \in Threads : RunRemoveDescend(t)
  \/ \E t \in Threads : RunRemoveRebalance(t)
  \/ \E t \in Threads : Return(t)

\* The enabling condition of ThreadStep(t): the guards of its six steps.
CanStep(t) ==
  /\ fault = "none"
  /\ \/ pending[t].phase = "done"
     \/ /\ pending[t].phase = "called" /\ pending[t].op = "Insert"
        /\ \E v \in ValuesOf(pending[t].key) : ~Blocked(Insert(TreeState, pending[t].key, v))
     \/ /\ pending[t].phase = "called" /\ pending[t].op = "GetValue"
        /\ ~Blocked(GetValue(TreeState, pending[t].key))
     \/ /\ pending[t].phase = "called" /\ pending[t].op = "Remove"
        /\ RemoveParks(pending[t].key) \/ ~Blocked(Remove(TreeState, pending[t].key))
     \/ /\ pending[t].phase = "leaf"
        /\ ~Blocked(Rebalance(t))

\* Fair scheduling: a thread whose next step stays possible takes it.  This
\* is WF_vars(ThreadStep(t)) with ENABLED <<ThreadStep(t)>>_vars written
\* out as CanStep(t); for Return its guard is the whole condition.
FairThread(t) ==
  /\ WF_vars(Return(t))
  /\ []<>(~CanStep(t)) \/ []<><<ThreadStep(t)>>_vars

SpecLatching ==
  InitLoaded /\ [][LatchingNext]_vars /\ \A t \in Threads : FairThread(t)

\* Two threads each hold a leaf and wait for the leaf the other holds.
SiblingDeadlock ==
  \E t \in Threads : \E u \in Threads \ {t} :
    /\ fault = "none"
    /\ pending[t].phase = "leaf" /\ pending[u].phase = "leaf"
    /\ Blocked(Rebalance(t)) /\ Blocked(Rebalance(u))

\* C32: deadlock freedom of the latch protocol.  With several threads
\* running Insert, Remove and GetValue under fair scheduling, every
\* operation that was called returns; a run that ends in undefined
\* behaviour is left aside.
Cex_C32_EveryCallReturns ==
  \A t \in Threads :
    (pending[t].phase # "idle") ~> (pending[t].phase = "idle" \/ fault # "none")

====
